---- MODULE Spec2Model ----
(***************************************************************************)
(* Clockwork date/time engine: holiday resolution, season membership,      *)
(* time-range membership, offset parsing and the offset binary sensor      *)
(* (trigger latch).  Pure functions are operators applied by actions to    *)
(* inputs drawn from bounded sets; the sensors are state machines driven   *)
(* by source-change and tick callbacks.                                    *)
(***************************************************************************)
EXTENDS Integers, Sequences, FiniteSets, TLC

VARIABLES
    call,       \* the pending call of a pure function: its arguments
    ret,        \* what the call returned (or raised)
    latch,      \* fields of one ClockworkOffsetBinarySensor
    now,        \* dt_util.utcnow(), seconds since the sensor was added
    next_tick,  \* when async_track_time_interval fires check_trigger next
    hist,       \* history of the latch: what the last callback was
    states,     \* hass.states for the start and end datetime entities
    wall,       \* dt_util.now() as seen by the date sensors
    between,    \* fields of one ClockworkBetweenDatesSensor
    outside,    \* fields of one ClockworkOutsideDatesSensor
    options,    \* config_entry.options: the custom holidays of the entry
    listeners   \* the offset sensor's subscriptions in hass and its unsubscribe handle

vars == <<call, ret, latch, now, next_tick, hist, states, wall, between, outside, options, listeners>>

----------------------------------------------------------------------------
(* Values every function result is wrapped in, so that a returned value,   *)
(* None and a raised exception are told apart.                             *)

None == [tag |-> "None"]
Raise(exc) == [tag |-> "raise", exc |-> exc]
IntVal(v) == [tag |-> "int", v |-> v]
BoolVal(b) == [tag |-> "bool", v |-> b]
\* a string that is only ever compared as a whole
Word(w) == [tag |-> "word", w |-> w]
NoCall == [op |-> "none"]
NoRet == [op |-> "none", val |-> None]

IsRaise(r) == r.tag = "raise"

----------------------------------------------------------------------------
(* datetime.date and calendar, as the standard library computes them.      *)

MaxYear == 2026
Years == 2024..MaxYear
Months == {1, 2, 11, 12}

IsLeap(y) == (y % 4 = 0) /\ ((y % 100 # 0) \/ (y % 400 = 0))

DaysInMonth(y, m) ==
    CASE m \in {1, 3, 5, 7, 8, 10, 12} -> 31
      [] m \in {4, 6, 9, 11} -> 30
      [] OTHER -> IF IsLeap(y) THEN 29 ELSE 28

DaysBeforeYear(y) == (y - 1) * 365 + ((y - 1) \div 4) - ((y - 1) \div 100) + ((y - 1) \div 400)

RECURSIVE DaysBeforeMonth(_, _)
DaysBeforeMonth(y, m) == IF m = 1 THEN 0 ELSE DaysBeforeMonth(y, m - 1) + DaysInMonth(y, m - 1)

\* date.toordinal()
Ordinal(dt) == DaysBeforeYear(dt.y) + DaysBeforeMonth(dt.y, dt.m) + dt.d

\* date.weekday(): Monday is 0
Weekday(dt) == (Ordinal(dt) + 6) % 7

\* date(year, month, day): ValueError when the day does not exist
date(y, m, d) ==
    IF m \in 1..12 /\ d \in 1..DaysInMonth(y, m)
    THEN [tag |-> "date", y |-> y, m |-> m, d |-> d]
    ELSE Raise("ValueError")

\* calendar.monthcalendar(year, month): weeks of 7 slots, Monday first,
\* a slot is 0 when that calendar day is not in the month
monthcalendar(y, m) ==
    LET first == Weekday([y |-> y, m |-> m, d |-> 1])
        nd == DaysInMonth(y, m)
        nweeks == (first + nd + 6) \div 7
    IN [w \in 1..nweeks |->
          [c \in 1..7 |->
              LET day == (w - 1) * 7 + (c - 1) - first + 1
              IN IF day \in 1..nd THEN day ELSE 0]]

\* calendar.monthrange(year, month)[1]
monthrange_last(y, m) == DaysInMonth(y, m)

----------------------------------------------------------------------------
(* HolidayCalendar: utils.get_holidays, get_holiday_date, _get_nth_weekday, *)
(* _get_last_weekday, get_days_to_holiday.                                 *)

get_holidays(builtin, custom_holidays) ==
    IF Len(custom_holidays) > 0 THEN builtin \o custom_holidays ELSE builtin

RECURSIVE nth_weekday_loop(_, _, _, _, _, _, _)
nth_weekday_loop(cal, i, count, y, m, occurrence, weekday) ==
    IF i > Len(cal) THEN None
    ELSE IF cal[i][weekday + 1] = 0
         THEN nth_weekday_loop(cal, i + 1, count, y, m, occurrence, weekday)
         ELSE IF count + 1 = occurrence
              THEN date(y, m, cal[i][weekday + 1])
              ELSE nth_weekday_loop(cal, i + 1, count + 1, y, m, occurrence, weekday)

\* variant: the occurrence-th week of the calendar, whether or not the
\* weekday of that week lies in the month
get_nth_weekday_any_week(y, m, occurrence, weekday) ==
    LET cal == monthcalendar(y, m) IN
    IF occurrence \in 1..Len(cal) /\ cal[occurrence][weekday + 1] # 0
    THEN date(y, m, cal[occurrence][weekday + 1])
    ELSE None

get_nth_weekday(y, m, occurrence, weekday) ==
    nth_weekday_loop(monthcalendar(y, m), 1, 0, y, m, occurrence, weekday)

RECURSIVE last_weekday_loop(_, _, _, _, _)
last_weekday_loop(cal, i, y, m, weekday) ==
    IF i < 1 THEN None
    ELSE IF cal[i][weekday + 1] # 0
         THEN date(y, m, cal[i][weekday + 1])
         ELSE last_weekday_loop(cal, i - 1, y, m, weekday)

get_last_weekday(y, m, weekday) ==
    LET cal == monthcalendar(y, m) IN last_weekday_loop(cal, Len(cal), y, m, weekday)

RECURSIVE holiday_loop(_, _, _, _)
holiday_loop(holidays, i, target_year, holiday_key) ==
    IF i > Len(holidays) THEN None
    ELSE LET holiday == holidays[i] IN
         IF holiday.key # holiday_key
         THEN holiday_loop(holidays, i + 1, target_year, holiday_key)
         ELSE CASE holiday.type = "fixed" ->
                     date(target_year, holiday.month, holiday.day)
                [] holiday.type = "nth_weekday" ->
                     get_nth_weekday(target_year, holiday.month, holiday.occurrence, holiday.weekday)
                [] holiday.type = "last_weekday" ->
                     get_last_weekday(target_year, holiday.month, holiday.weekday)
                [] OTHER -> holiday_loop(holidays, i + 1, target_year, holiday_key)

get_holiday_date(builtin, target_year, holiday_key, custom_holidays) ==
    holiday_loop(get_holidays(builtin, custom_holidays), 1, target_year, holiday_key)

\* variant: rolls to next year also when the holiday is today (delta <= 0)
get_days_to_holiday_rolls_today(builtin, today, holiday_key, custom_holidays) ==
    LET holiday_date == get_holiday_date(builtin, today.y, holiday_key, custom_holidays) IN
    IF IsRaise(holiday_date) THEN holiday_date
    ELSE IF holiday_date = None THEN IntVal(-1)
    ELSE LET delta == Ordinal(holiday_date) - Ordinal(today) IN
         IF delta <= 0
         THEN LET next_year_holiday ==
                     get_holiday_date(builtin, today.y + 1, holiday_key, custom_holidays) IN
              IF IsRaise(next_year_holiday) THEN next_year_holiday
              ELSE IF next_year_holiday # None
                   THEN IntVal(Ordinal(next_year_holiday) - Ordinal(today))
                   ELSE IntVal(delta)
         ELSE IntVal(delta)

get_days_to_holiday(builtin, today, holiday_key, custom_holidays) ==
    LET holiday_date == get_holiday_date(builtin, today.y, holiday_key, custom_holidays) IN
    IF IsRaise(holiday_date) THEN holiday_date
    ELSE IF holiday_date = None THEN IntVal(-1)
    ELSE LET delta == Ordinal(holiday_date) - Ordinal(today) IN
         IF delta < 0
         THEN LET next_year_holiday ==
                     get_holiday_date(builtin, today.y + 1, holiday_key, custom_holidays) IN
              IF IsRaise(next_year_holiday) THEN next_year_holiday
              ELSE IF next_year_holiday # None
                   THEN IntVal(Ordinal(next_year_holiday) - Ordinal(today))
                   ELSE IntVal(delta)
         ELSE IntVal(delta)

----------------------------------------------------------------------------
(* SeasonCalendar: utils.get_seasons, is_in_season.                        *)

\* seasons_data.get(hemisphere, [])
get_seasons_list(seasons_data, hemisphere) ==
    IF hemisphere \in DOMAIN seasons_data THEN seasons_data[hemisphere] ELSE <<>>

season_end_date(y, end_month, end_day) ==
    LET end_date == date(y, end_month, end_day) IN
    IF ~IsRaise(end_date) THEN end_date
    ELSE IF end_month = 2
         THEN date(y, 2, 28)
         ELSE IF end_month \in 1..12
              THEN date(y, end_month, monthrange_last(y, end_month))
              ELSE Raise("ValueError")

RECURSIVE season_loop(_, _, _, _)
season_loop(seasons_list, i, check_date, season_key) ==
    IF i > Len(seasons_list) THEN BoolVal(FALSE)
    ELSE LET season == seasons_list[i] IN
         IF season.key # season_key
         THEN season_loop(seasons_list, i + 1, check_date, season_key)
         ELSE LET start_date == date(check_date.y, season.start_month, season.start_day)
                  end_date == season_end_date(check_date.y, season.end_month, season.end_day)
              IN IF IsRaise(start_date) THEN start_date
                 ELSE IF IsRaise(end_date) THEN end_date
                 ELSE IF season.start_month > season.end_month
                 THEN BoolVal(Ordinal(check_date) >= Ordinal(start_date)
                              \/ Ordinal(check_date) <= Ordinal(end_date))
                 ELSE BoolVal(Ordinal(start_date) <= Ordinal(check_date)
                              /\ Ordinal(check_date) <= Ordinal(end_date))

is_in_season(seasons_data, check_date, season_key, hemisphere) ==
    season_loop(get_seasons_list(seasons_data, hemisphere), 1, check_date, season_key)

----------------------------------------------------------------------------
(* OffsetExpression: utils.parse_offset.  A string is a sequence of        *)
(* one-character strings; str.strip, str.split, str.lower, str.rstrip and  *)
(* int() are computed on the characters.                                   *)

Str(chars) == [tag |-> "str", s |-> chars]

IsSpace(c) == c \in {" ", "\t"}
Digits == <<"0", "1", "2", "3", "4", "5", "6", "7", "8", "9">>
IsDigit(c) == \E i \in 1..10 : Digits[i] = c
DigitVal(c) == (CHOOSE i \in 1..10 : Digits[i] = c) - 1

RECURSIVE lstrip(_)
lstrip(s) == IF Len(s) > 0 /\ IsSpace(Head(s)) THEN lstrip(Tail(s)) ELSE s

RECURSIVE rstrip(_)
rstrip(s) == IF Len(s) > 0 /\ IsSpace(s[Len(s)]) THEN rstrip(SubSeq(s, 1, Len(s) - 1)) ELSE s

strip(s) == rstrip(lstrip(s))

\* str.split(): the maximal runs of non-whitespace characters
RECURSIVE split_loop(_, _, _)
split_loop(s, cur, acc) ==
    IF Len(s) = 0 THEN (IF Len(cur) > 0 THEN Append(acc, cur) ELSE acc)
    ELSE IF IsSpace(Head(s))
         THEN split_loop(Tail(s), <<>>, IF Len(cur) > 0 THEN Append(acc, cur) ELSE acc)
         ELSE split_loop(Tail(s), Append(cur, Head(s)), acc)

split(s) == split_loop(s, <<>>, <<>>)

LowerOf(c) ==
    CASE c = "A" -> "a" [] c = "D" -> "d" [] c = "E" -> "e" [] c = "H" -> "h"
      [] c = "I" -> "i" [] c = "K" -> "k" [] c = "M" -> "m" [] c = "N" -> "n"
      [] c = "O" -> "o" [] c = "R" -> "r" [] c = "S" -> "s" [] c = "T" -> "t"
      [] c = "U" -> "u" [] c = "W" -> "w" [] c = "Y" -> "y" [] c = "C" -> "c"
      [] OTHER -> c

lower(s) == [i \in 1..Len(s) |-> LowerOf(s[i])]

\* str.rstrip('s'): drops every trailing "s"
RECURSIVE rstrip_s(_)
rstrip_s(s) == IF Len(s) > 0 /\ s[Len(s)] = "s" THEN rstrip_s(SubSeq(s, 1, Len(s) - 1)) ELSE s

RECURSIVE digits_value(_, _)
digits_value(s, acc) == IF Len(s) = 0 THEN acc ELSE digits_value(Tail(s), 10 * acc + DigitVal(Head(s)))

\* int(token): an optional sign and at least one digit, else ValueError
int(tok) ==
    LET body == IF Len(tok) > 0 /\ tok[1] \in {"+", "-"} THEN Tail(tok) ELSE tok
        sign == IF Len(tok) > 0 /\ tok[1] = "-" THEN -1 ELSE 1
    IN IF Len(body) > 0 /\ \A i \in 1..Len(body) : IsDigit(body[i])
       THEN IntVal(sign * digits_value(body, 0))
       ELSE Raise("ValueError")

conversions ==
    [u \in {<<"s","e","c","o","n","d">>, <<"m","i","n","u","t","e">>, <<"h","o","u","r">>,
            <<"d","a","y">>, <<"w","e","e","k">>} |->
        CASE u = <<"s","e","c","o","n","d">> -> 1
          [] u = <<"m","i","n","u","t","e">> -> 60
          [] u = <<"h","o","u","r">> -> 3600
          [] u = <<"d","a","y">> -> 86400
          [] u = <<"w","e","e","k">> -> 604800]

\* variant: the unit is not lower-cased before the lookup
parse_offset_case_sensitive(offset_str) ==
    IF offset_str = None \/ Len(offset_str.s) = 0 THEN 0
    ELSE LET parts == split(strip(offset_str.s)) IN
         IF Len(parts) < 2 THEN 0
         ELSE LET value == int(parts[1])
                  unit == rstrip_s(parts[2])
              IN IF IsRaise(value) THEN 0
                 ELSE IF unit \notin DOMAIN conversions THEN 0
                 ELSE value.v * conversions[unit]

parse_offset(offset_str) ==
    IF offset_str = None \/ Len(offset_str.s) = 0 THEN 0
    ELSE LET parts == split(strip(offset_str.s)) IN
         IF Len(parts) < 2 THEN 0
         ELSE LET value == int(parts[1])
                  unit == rstrip_s(lower(parts[2]))
              IN IF IsRaise(value) THEN 0
                 ELSE IF unit \notin DOMAIN conversions THEN 0
                 ELSE value.v * conversions[unit]

\* the (is_valid, error_message) pair validate_offset_string returns
Result(ok, error) == [tag |-> "tuple", ok |-> ok, error |-> error]

valid_units ==
    {<<"s","e","c","o","n","d">>, <<"m","i","n","u","t","e">>, <<"h","o","u","r">>,
     <<"d","a","y">>, <<"w","e","e","k">>}

\* variant: the zero check is missing
validate_offset_string_accepts_zero(offset_str) ==
    IF offset_str = None \/ offset_str.tag # "str" \/ Len(offset_str.s) = 0
    THEN Result(FALSE, Word("Offset is required"))
    ELSE LET text == strip(offset_str.s) IN
         IF Len(text) = 0 THEN Result(FALSE, Word("Offset cannot be empty"))
         ELSE LET parts == split(text) IN
              IF Len(parts) < 2 THEN Result(FALSE, Word("Format must be like '1 hour'"))
              ELSE IF Len(parts) > 2 THEN Result(FALSE, Word("Offset must contain only value and unit"))
              ELSE LET value == int(parts[1]) IN
                   IF IsRaise(value) THEN Result(FALSE, Word("Offset value must be an integer"))
                   ELSE LET unit == rstrip_s(lower(parts[2])) IN
                        IF unit \notin valid_units THEN Result(FALSE, Word("Invalid time unit"))
                        ELSE Result(TRUE, None)

\* variant: extra words after the unit are not rejected
validate_offset_string_extra_words(offset_str) ==
    IF offset_str = None \/ offset_str.tag # "str" \/ Len(offset_str.s) = 0
    THEN Result(FALSE, Word("Offset is required"))
    ELSE LET text == strip(offset_str.s) IN
         IF Len(text) = 0 THEN Result(FALSE, Word("Offset cannot be empty"))
         ELSE LET parts == split(text) IN
              IF Len(parts) < 2 THEN Result(FALSE, Word("Format must be like '1 hour'"))
              ELSE LET value == int(parts[1]) IN
                   IF IsRaise(value) THEN Result(FALSE, Word("Offset value must be an integer"))
                   ELSE IF value.v = 0 THEN Result(FALSE, Word("Offset value must be non-zero"))
                   ELSE LET unit == rstrip_s(lower(parts[2])) IN
                        IF unit \notin valid_units THEN Result(FALSE, Word("Invalid time unit"))
                        ELSE Result(TRUE, None)

validate_offset_string(offset_str) ==
    IF offset_str = None \/ offset_str.tag # "str" \/ Len(offset_str.s) = 0
    THEN Result(FALSE, Word("Offset is required"))
    ELSE LET text == strip(offset_str.s) IN
         IF Len(text) = 0 THEN Result(FALSE, Word("Offset cannot be empty"))
         ELSE LET parts == split(text) IN
              IF Len(parts) < 2 THEN Result(FALSE, Word("Format must be like '1 hour'"))
              ELSE IF Len(parts) > 2 THEN Result(FALSE, Word("Offset must contain only value and unit"))
              ELSE LET value == int(parts[1]) IN
                   IF IsRaise(value) THEN Result(FALSE, Word("Offset value must be an integer"))
                   ELSE IF value.v = 0 THEN Result(FALSE, Word("Offset value must be non-zero"))
                   ELSE LET unit == rstrip_s(lower(parts[2])) IN
                        IF unit \notin valid_units THEN Result(FALSE, Word("Invalid time unit"))
                        ELSE Result(TRUE, None)

\* timedelta(days=d, seconds=s), normalised to 0 <= seconds < 86400
timedelta(days, seconds) ==
    [days |-> days + (seconds \div 86400), seconds |-> seconds % 86400]

\* a timestamp is a day number and a second of that day; datetime + timedelta
Timestamp(d, s) == [tag |-> "timestamp", d |-> d, s |-> s]

datetime_add(base, delta) ==
    Timestamp(base.d + delta.days + ((base.s + delta.seconds) \div 86400),
              (base.s + delta.seconds) % 86400)

\* the units of apply_offset_to_datetime's own table, and the timedelta each
\* unit's lambda builds from the integer value
delta_units ==
    {<<"s","e","c","o","n","d">>, <<"m","i","n","u","t","e">>, <<"h","o","u","r">>,
     <<"d","a","y">>, <<"w","e","e","k">>}

delta_conversions(unit, v) ==
    CASE unit = <<"s","e","c","o","n","d">> -> timedelta(0, v)
      [] unit = <<"m","i","n","u","t","e">> -> timedelta(0, 60 * v)
      [] unit = <<"h","o","u","r">> -> timedelta(0, 3600 * v)
      [] unit = <<"d","a","y">> -> timedelta(v, 0)
      [] unit = <<"w","e","e","k">> -> timedelta(7 * v, 0)

\* variant: a week is taken as five days
apply_offset_to_datetime_short_week(base_datetime, offset_str) ==
    IF base_datetime = None THEN None
    ELSE IF offset_str = None \/ Len(offset_str.s) = 0 THEN base_datetime
    ELSE LET parts == split(strip(offset_str.s)) IN
         IF Len(parts) < 2 THEN base_datetime
         ELSE LET value == int(parts[1])
                  unit == rstrip_s(lower(parts[2]))
              IN IF IsRaise(value) THEN base_datetime
                 ELSE IF unit \notin delta_units THEN base_datetime
                 ELSE IF unit = <<"w","e","e","k">>
                      THEN datetime_add(base_datetime, timedelta(5 * value.v, 0))
                      ELSE datetime_add(base_datetime, delta_conversions(unit, value.v))

apply_offset_to_datetime(base_datetime, offset_str) ==
    IF base_datetime = None THEN None
    ELSE IF offset_str = None \/ Len(offset_str.s) = 0 THEN base_datetime
    ELSE LET parts == split(strip(offset_str.s)) IN
         IF Len(parts) < 2 THEN base_datetime
         ELSE LET value == int(parts[1])
                  unit == rstrip_s(lower(parts[2]))
              IN IF IsRaise(value) THEN base_datetime
                 ELSE IF unit \notin delta_units THEN base_datetime
                 ELSE datetime_add(base_datetime, delta_conversions(unit, value.v))

----------------------------------------------------------------------------
(* TimeRangeEvaluator: utils.is_datetime_between.  A datetime is a day     *)
(* number, an hour of the day and, when aware, a UTC offset in hours.      *)

DateTime(d, t, aware, off) == [tag |-> "datetime", d |-> d, t |-> t, aware |-> aware, off |-> off]

\* datetime <= datetime: naive values compare their fields, aware values
\* their UTC instants, and a naive with an aware value is a TypeError
datetime_le(a, b) ==
    IF a.aware # b.aware THEN Raise("TypeError")
    ELSE IF a.aware
         THEN BoolVal(a.d * 24 + a.t - a.off <= b.d * 24 + b.t - b.off)
         ELSE BoolVal(a.d < b.d \/ (a.d = b.d /\ a.t <= b.t))

\* the chained comparison a <= x <= b: the second half is evaluated only
\* when the first half is true
chained_le(a, x, b) ==
    LET first == datetime_le(a, x) IN
    IF IsRaise(first) THEN first
    ELSE IF ~first.v THEN BoolVal(FALSE)
    ELSE datetime_le(x, b)

\* variant: the overnight window joined by "and" instead of "or"
is_datetime_between_overnight_and(check_datetime, start_datetime, end_datetime) ==
    IF check_datetime = None \/ start_datetime = None \/ end_datetime = None
    THEN Raise("ValueError")
    ELSE IF start_datetime.d = end_datetime.d
         THEN IF check_datetime.d = start_datetime.d
              THEN chained_le(start_datetime, check_datetime, end_datetime)
              ELSE IF start_datetime.t <= end_datetime.t
                   THEN BoolVal(start_datetime.t <= check_datetime.t
                                /\ check_datetime.t <= end_datetime.t)
                   ELSE BoolVal(check_datetime.t >= start_datetime.t
                                /\ check_datetime.t <= end_datetime.t)
         ELSE chained_le(start_datetime, check_datetime, end_datetime)

\* variant: no daily recurrence, every window compared by full timestamps
is_datetime_between_dated(check_datetime, start_datetime, end_datetime) ==
    IF check_datetime = None \/ start_datetime = None \/ end_datetime = None
    THEN Raise("ValueError")
    ELSE chained_le(start_datetime, check_datetime, end_datetime)

is_datetime_between(check_datetime, start_datetime, end_datetime) ==
    IF check_datetime = None \/ start_datetime = None \/ end_datetime = None
    THEN Raise("ValueError")
    ELSE IF start_datetime.d = end_datetime.d
         THEN IF check_datetime.d = start_datetime.d
              THEN chained_le(start_datetime, check_datetime, end_datetime)
              ELSE LET check_time == check_datetime.t
                       start_time == start_datetime.t
                       end_time == end_datetime.t
                   IN IF start_time <= end_time
                      THEN BoolVal(start_time <= check_time /\ check_time <= end_time)
                      ELSE BoolVal(check_time >= start_time \/ check_time <= end_time)
         ELSE chained_le(start_datetime, check_datetime, end_datetime)

\* datetime < datetime and datetime > datetime, with the same TypeError
datetime_lt(a, b) ==
    IF a.aware # b.aware THEN Raise("TypeError")
    ELSE IF a.aware
         THEN BoolVal(a.d * 24 + a.t - a.off < b.d * 24 + b.t - b.off)
         ELSE BoolVal(a.d < b.d \/ (a.d = b.d /\ a.t < b.t))

datetime_gt(a, b) == datetime_lt(b, a)

\* x or y on comparison results: y is evaluated only when x is false
or_else(x, y) == IF IsRaise(x) THEN x ELSE IF x.v THEN x ELSE y

\* variant: a missing timestamp is answered with False
do_ranges_overlap_none_is_false(range1_start, range1_end, range2_start, range2_end) ==
    IF None \in {range1_start, range1_end, range2_start, range2_end}
    THEN BoolVal(FALSE)
    ELSE LET warn == or_else(datetime_gt(range1_start, range1_end),
                             datetime_gt(range2_start, range2_end))
             apart == or_else(datetime_lt(range1_end, range2_start),
                              datetime_lt(range2_end, range1_start))
         IN IF IsRaise(warn) \/ IsRaise(apart) THEN Raise("ValueError")
            ELSE BoolVal(~apart.v)

\* variant: ranges that only touch at an endpoint do not overlap
do_ranges_overlap_open_ends(range1_start, range1_end, range2_start, range2_end) ==
    IF None \in {range1_start, range1_end, range2_start, range2_end}
    THEN Raise("ValueError")
    ELSE LET warn == or_else(datetime_gt(range1_start, range1_end),
                             datetime_gt(range2_start, range2_end))
             apart == or_else(datetime_le(range1_end, range2_start),
                              datetime_le(range2_end, range1_start))
         IN IF IsRaise(warn) \/ IsRaise(apart) THEN Raise("ValueError")
            ELSE BoolVal(~apart.v)

do_ranges_overlap(range1_start, range1_end, range2_start, range2_end) ==
    IF None \in {range1_start, range1_end, range2_start, range2_end}
    THEN Raise("ValueError")
    ELSE LET warn == or_else(datetime_gt(range1_start, range1_end),
                             datetime_gt(range2_start, range2_end))
             apart == or_else(datetime_lt(range1_end, range2_start),
                              datetime_lt(range2_end, range1_start))
         IN IF IsRaise(warn) \/ IsRaise(apart) THEN Raise("ValueError")
            ELSE BoolVal(~apart.v)

\* max(a, b) and min(a, b): the first argument unless the second is
\* strictly greater (smaller)
max(a, b) == LET gt == datetime_gt(b, a) IN IF IsRaise(gt) THEN gt ELSE IF gt.v THEN b ELSE a
min(a, b) == LET lt == datetime_lt(b, a) IN IF IsRaise(lt) THEN lt ELSE IF lt.v THEN b ELSE a

\* the (overlap_start, overlap_end) tuple
Overlap(start, end) == [tag |-> "overlap", start |-> start, end |-> end]

get_range_overlap(range1_start, range1_end, range2_start, range2_end) ==
    LET overlaps == do_ranges_overlap(range1_start, range1_end, range2_start, range2_end) IN
    IF IsRaise(overlaps) THEN overlaps
    ELSE IF ~overlaps.v THEN None
    ELSE LET overlap_start == max(range1_start, range2_start)
             overlap_end == min(range1_end, range2_end)
         IN IF IsRaise(overlap_start) THEN overlap_start
            ELSE IF IsRaise(overlap_end) THEN overlap_end
            ELSE Overlap(overlap_start, overlap_end)

----------------------------------------------------------------------------
(* Between-dates and outside-dates sensors: utils.parse_datetime_or_date   *)
(* and the two _update_state methods of binary_sensor.py.  The state of a  *)
(* datetime entity is a text that is empty, junk, a date or a datetime.    *)

StateText(form, dt) == [tag |-> "state", form |-> form, dt |-> dt]

parse_datetime_or_date(value) ==
    CASE value.form = "empty" -> None
      [] value.form = "datetime" -> value.dt
      [] value.form = "date" -> DateTime(value.dt.d, 0, FALSE, 0)
      [] OTHER -> None

\* datetime.replace(tzinfo=current_datetime.tzinfo) on a naive value
make_aware(dt, current_datetime) ==
    IF ~dt.aware THEN DateTime(dt.d, dt.t, TRUE, current_datetime.off) ELSE dt

\* variant: an output that was on stays on while the inputs are valid
between_update_state_sticky(hass_states, current_datetime, old_is_on) ==
    LET start_state == hass_states.start
        end_state == hass_states.end
    IN IF start_state = None THEN FALSE
       ELSE IF end_state = None THEN FALSE
       ELSE LET start_datetime == parse_datetime_or_date(start_state)
                end_datetime == parse_datetime_or_date(end_state)
            IN IF start_datetime # None /\ end_datetime # None
               THEN LET result == is_datetime_between(current_datetime,
                                      make_aware(start_datetime, current_datetime),
                                      make_aware(end_datetime, current_datetime))
                    IN IF IsRaise(result) THEN old_is_on ELSE (result.v \/ old_is_on)
               ELSE FALSE

between_update_state(hass_states, current_datetime, old_is_on) ==
    LET start_state == hass_states.start
        end_state == hass_states.end
    IN IF start_state = None THEN FALSE
       ELSE IF end_state = None THEN FALSE
       ELSE LET start_datetime == parse_datetime_or_date(start_state)
                end_datetime == parse_datetime_or_date(end_state)
            IN IF start_datetime # None /\ end_datetime # None
               THEN LET result == is_datetime_between(current_datetime,
                                      make_aware(start_datetime, current_datetime),
                                      make_aware(end_datetime, current_datetime))
                    IN IF IsRaise(result) THEN old_is_on ELSE result.v
               ELSE FALSE

\* variant: the result of is_datetime_between is not negated
outside_update_state_not_negated(hass_states, current_datetime, old_is_on) ==
    between_update_state(hass_states, current_datetime, old_is_on)

outside_update_state(hass_states, current_datetime, old_is_on) ==
    LET start_state == hass_states.start
        end_state == hass_states.end
    IN IF start_state = None THEN FALSE
       ELSE IF end_state = None THEN FALSE
       ELSE LET start_datetime == parse_datetime_or_date(start_state)
                end_datetime == parse_datetime_or_date(end_state)
            IN IF start_datetime # None /\ end_datetime # None
               THEN LET result == is_datetime_between(current_datetime,
                                      make_aware(start_datetime, current_datetime),
                                      make_aware(end_datetime, current_datetime))
                    IN IF IsRaise(result) THEN old_is_on ELSE ~result.v
               ELSE FALSE

----------------------------------------------------------------------------
(* TriggerLatch: ClockworkOffsetBinarySensor of binary_sensor.py.          *)

TickInterval == 60

Time(v) == [tag |-> "time", v |-> v]
State(v) == [tag |-> "state", state |-> v]

\* str(n) for an integer n
RECURSIVE digits_of(_)
digits_of(n) == IF n < 10 THEN <<Digits[n + 1]>> ELSE Append(digits_of(n \div 10), Digits[(n % 10) + 1])

str(n) == Str(IF n < 0 THEN <<"-">> \o digits_of(-n) ELSE digits_of(n))

\* dict.get(key, default) on a config in which an absent key is None
get(value, default) == IF value = None THEN default ELSE value

\* variant: a missing offset defaults to one minute
OffsetBinarySensor_default_minute(config) ==
    LET offset_seconds == parse_offset(get(config.offset, Str(<<"1"," ","m","i","n","u","t","e">>)))
    IN [ config |-> config,
         is_on |-> FALSE,
         trigger_time |-> None,
         offset_seconds |-> offset_seconds,
         pulse_duration_seconds |-> parse_offset(get(config.pulse_duration, str(offset_seconds))),
         mode |-> get(config.offset_mode, Word("latch")).w,
         trigger_on |-> get(config.trigger_on, Word("on")).w,
         source_is_on |-> FALSE ]

\* ClockworkOffsetBinarySensor.__init__
OffsetBinarySensor(config) ==
    LET offset_seconds == parse_offset(get(config.offset, Str(<<"0">>)))
    IN [ config |-> config,
         is_on |-> FALSE,
         trigger_time |-> None,
         offset_seconds |-> offset_seconds,
         pulse_duration_seconds |-> parse_offset(get(config.pulse_duration, str(offset_seconds))),
         mode |-> get(config.offset_mode, Word("latch")).w,
         trigger_on |-> get(config.trigger_on, Word("on")).w,
         source_is_on |-> FALSE ]

\* variant: the pulse window includes its end (now <= pulse_end_time)
update_state_inclusive_end(self, t) ==
    IF self.mode = "pulse"
    THEN IF self.trigger_time # None
         THEN LET pulse_end_time == self.trigger_time.v + self.pulse_duration_seconds IN
              [self EXCEPT
                 !.is_on = (self.trigger_time.v <= t /\ t <= pulse_end_time),
                 !.trigger_time = IF t >= pulse_end_time THEN None ELSE self.trigger_time]
         ELSE [self EXCEPT !.is_on = FALSE]
    ELSE IF self.mode = "duration"
    THEN [self EXCEPT !.is_on = /\ self.trigger_time # None /\ t >= self.trigger_time.v
                                /\ \/ self.trigger_on = "on" /\ self.source_is_on
                                   \/ self.trigger_on = "off" /\ ~self.source_is_on
                                   \/ self.trigger_on = "both"]
    ELSE [self EXCEPT !.is_on = self.trigger_time # None /\ t >= self.trigger_time.v]

\* variant: latch mode clears the trigger once the output has turned on
update_state_latch_clears(self, t) ==
    IF self.mode = "pulse"
    THEN IF self.trigger_time # None
         THEN LET pulse_end_time == self.trigger_time.v + self.pulse_duration_seconds IN
              [self EXCEPT
                 !.is_on = (self.trigger_time.v <= t /\ t < pulse_end_time),
                 !.trigger_time = IF t >= pulse_end_time THEN None ELSE self.trigger_time]
         ELSE [self EXCEPT !.is_on = FALSE]
    ELSE IF self.mode = "duration"
    THEN [self EXCEPT !.is_on = /\ self.trigger_time # None /\ t >= self.trigger_time.v
                                /\ \/ self.trigger_on = "on" /\ self.source_is_on
                                   \/ self.trigger_on = "off" /\ ~self.source_is_on
                                   \/ self.trigger_on = "both"]
    ELSE IF self.trigger_time # None /\ t >= self.trigger_time.v
         THEN [self EXCEPT !.is_on = TRUE, !.trigger_time = None]
         ELSE [self EXCEPT !.is_on = FALSE]

\* variant: duration mode does not look at the source state
update_state_duration_ignores_source(self, t) ==
    IF self.mode = "pulse"
    THEN IF self.trigger_time # None
         THEN LET pulse_end_time == self.trigger_time.v + self.pulse_duration_seconds IN
              [self EXCEPT
                 !.is_on = (self.trigger_time.v <= t /\ t < pulse_end_time),
                 !.trigger_time = IF t >= pulse_end_time THEN None ELSE self.trigger_time]
         ELSE [self EXCEPT !.is_on = FALSE]
    ELSE IF self.trigger_time # None /\ t >= self.trigger_time.v
         THEN [self EXCEPT !.is_on = TRUE]
         ELSE [self EXCEPT !.is_on = FALSE]

\* ClockworkOffsetBinarySensor._update_state at utcnow() = t
\* variant: duration mode turns on as soon as a trigger is set
update_state_duration_early(self, t) ==
    IF self.mode = "pulse"
    THEN IF self.trigger_time # None
         THEN LET pulse_end_time == self.trigger_time.v + self.pulse_duration_seconds IN
              [self EXCEPT
                 !.is_on = (self.trigger_time.v <= t /\ t < pulse_end_time),
                 !.trigger_time = IF t >= pulse_end_time THEN None ELSE self.trigger_time]
         ELSE [self EXCEPT !.is_on = FALSE]
    ELSE IF self.mode = "duration"
    THEN IF self.trigger_time # None
         THEN IF self.trigger_on = "on" /\ self.source_is_on THEN [self EXCEPT !.is_on = TRUE]
              ELSE IF self.trigger_on = "off" /\ ~self.source_is_on THEN [self EXCEPT !.is_on = TRUE]
              ELSE IF self.trigger_on = "both" THEN [self EXCEPT !.is_on = TRUE]
              ELSE [self EXCEPT !.is_on = FALSE]
         ELSE [self EXCEPT !.is_on = FALSE]
    ELSE IF self.trigger_time # None /\ t >= self.trigger_time.v
         THEN [self EXCEPT !.is_on = TRUE]
         ELSE [self EXCEPT !.is_on = FALSE]

update_state(self, t) ==
    IF self.mode = "pulse"
    THEN IF self.trigger_time # None
         THEN LET pulse_end_time == self.trigger_time.v + self.pulse_duration_seconds IN
              [self EXCEPT
                 !.is_on = (self.trigger_time.v <= t /\ t < pulse_end_time),
                 !.trigger_time = IF t >= pulse_end_time THEN None ELSE self.trigger_time]
         ELSE [self EXCEPT !.is_on = FALSE]
    ELSE IF self.mode = "duration"
    THEN IF self.trigger_time # None /\ t >= self.trigger_time.v
         THEN IF self.trigger_on = "on" /\ self.source_is_on THEN [self EXCEPT !.is_on = TRUE]
              ELSE IF self.trigger_on = "off" /\ ~self.source_is_on THEN [self EXCEPT !.is_on = TRUE]
              ELSE IF self.trigger_on = "both" THEN [self EXCEPT !.is_on = TRUE]
              ELSE [self EXCEPT !.is_on = FALSE]
         ELSE [self EXCEPT !.is_on = FALSE]
    ELSE IF self.trigger_time # None /\ t >= self.trigger_time.v
         THEN [self EXCEPT !.is_on = TRUE]
         ELSE [self EXCEPT !.is_on = FALSE]

\* variant: a matching change does not replace a trigger that is already set
state_change_listener_keeps_trigger(self, new_state, t) ==
    LET arm(s) == IF s.trigger_time = None
                  THEN [s EXCEPT !.trigger_time = Time(t + self.offset_seconds)] ELSE s
    IN IF new_state # None /\ new_state.state = "on"
       THEN LET s1 == [self EXCEPT !.source_is_on = TRUE]
                s2 == IF self.trigger_on = "on" \/ self.trigger_on = "both" THEN arm(s1) ELSE s1
            IN update_state(s2, t)
       ELSE IF new_state # None /\ new_state.state = "off"
       THEN LET s1 == [self EXCEPT !.source_is_on = FALSE] IN
            IF self.trigger_on = "off" \/ self.trigger_on = "both"
            THEN update_state(arm(s1), t)
            ELSE IF self.mode = "duration"
            THEN [s1 EXCEPT !.trigger_time = None, !.is_on = FALSE]
            ELSE IF self.mode = "pulse"
            THEN [s1 EXCEPT !.trigger_time = None, !.is_on = FALSE]
            ELSE s1
       ELSE self

\* variant: duration mode has no early cancellation
state_change_listener_no_duration_cancel(self, new_state, t) ==
    IF new_state # None /\ new_state.state = "on"
    THEN LET s1 == [self EXCEPT !.source_is_on = TRUE]
             s2 == IF self.trigger_on = "on" \/ self.trigger_on = "both"
                   THEN [s1 EXCEPT !.trigger_time = Time(t + self.offset_seconds)]
                   ELSE s1
         IN update_state(s2, t)
    ELSE IF new_state # None /\ new_state.state = "off"
    THEN LET s1 == [self EXCEPT !.source_is_on = FALSE] IN
         IF self.trigger_on = "off" \/ self.trigger_on = "both"
         THEN update_state([s1 EXCEPT !.trigger_time = Time(t + self.offset_seconds)], t)
         ELSE IF self.mode = "pulse"
         THEN [s1 EXCEPT !.trigger_time = None, !.is_on = FALSE]
         ELSE s1
    ELSE self

\* variant: latch mode cancels on a non-matching "off" as pulse mode does
state_change_listener_latch_cancels(self, new_state, t) ==
    IF new_state # None /\ new_state.state = "on"
    THEN LET s1 == [self EXCEPT !.source_is_on = TRUE]
             s2 == IF self.trigger_on = "on" \/ self.trigger_on = "both"
                   THEN [s1 EXCEPT !.trigger_time = Time(t + self.offset_seconds)]
                   ELSE s1
         IN update_state(s2, t)
    ELSE IF new_state # None /\ new_state.state = "off"
    THEN LET s1 == [self EXCEPT !.source_is_on = FALSE] IN
         IF self.trigger_on = "off" \/ self.trigger_on = "both"
         THEN update_state([s1 EXCEPT !.trigger_time = Time(t + self.offset_seconds)], t)
         ELSE [s1 EXCEPT !.trigger_time = None, !.is_on = FALSE]
    ELSE self

\* state_change_listener for event.data["new_state"] = new_state at utcnow() = t
state_change_listener(self, new_state, t) ==
    IF new_state # None /\ new_state.state = "on"
    THEN LET s1 == [self EXCEPT !.source_is_on = TRUE]
             s2 == IF self.trigger_on = "on" \/ self.trigger_on = "both"
                   THEN [s1 EXCEPT !.trigger_time = Time(t + self.offset_seconds)]
                   ELSE s1
         IN update_state(s2, t)
    ELSE IF new_state # None /\ new_state.state = "off"
    THEN LET s1 == [self EXCEPT !.source_is_on = FALSE] IN
         IF self.trigger_on = "off" \/ self.trigger_on = "both"
         THEN update_state([s1 EXCEPT !.trigger_time = Time(t + self.offset_seconds)], t)
         ELSE IF self.mode = "duration"
         THEN [s1 EXCEPT !.trigger_time = None, !.is_on = FALSE]
         ELSE IF self.mode = "pulse"
         THEN [s1 EXCEPT !.trigger_time = None, !.is_on = FALSE]
         ELSE s1
    ELSE self

\* async_added_to_hass: the state-change subscription, then the timer; both
\* unsubscribe handles are stored in the same attribute
added_to_hass ==
    LET first == [remove_listener |-> Word("state_change"), tracked |-> {"state_change"}]
    IN [remove_listener |-> Word("time_interval"),
        tracked |-> first.tracked \cup {"time_interval"}]


\* async_will_remove_from_hass: calls the stored unsubscribe handle
will_remove_from_hass(subs) ==
    IF subs.remove_listener # None
    THEN [subs EXCEPT !.tracked = @ \ {subs.remove_listener.w}]
    ELSE subs

----------------------------------------------------------------------------
(* Idle values of the state a specification does not exercise.             *)

LatchIdle == [mode |-> "none"]
HistIdle ==
    [event |-> "none", armed_at |-> None, quiet |-> FALSE, handled |-> FALSE, removed |-> FALSE,
     eval_at |-> None, unloaded |-> FALSE, was_on |-> FALSE, was_armed |-> FALSE,
     had_armed |-> FALSE]
ListenersIdle == [remove_listener |-> None, tracked |-> {}]
SensorIdle == [is_on |-> FALSE, added |-> FALSE, fresh |-> FALSE, valid |-> FALSE, recovered |-> FALSE]
StatesIdle == [start |-> None, end |-> None]
WallStart == [d |-> 0, t |-> 0]

LatchUnused ==
    /\ latch = LatchIdle /\ now = 0 /\ next_tick = 0 /\ hist = HistIdle
    /\ listeners = ListenersIdle

DatesUnused ==
    /\ states = StatesIdle /\ wall = WallStart /\ between = SensorIdle /\ outside = SensorIdle

PureUnused == call = NoCall /\ ret = NoRet

FlowUnused == options = [custom_holidays |-> <<>>]

----------------------------------------------------------------------------
(* Holiday calls: one rule under key "h" as a custom holiday after the     *)
(* built-in table, looked up from every reference date.                    *)

MaxOccurrence == 6
FixedDays == {1, 2, 15, 25, 28, 29, 30, 31}

HolidayRules ==
    {[key |-> "h", type |-> "fixed", month |-> m, day |-> d] : m \in Months, d \in FixedDays}
    \cup {[key |-> "h", type |-> "nth_weekday", month |-> m, occurrence |-> o, weekday |-> w] :
              m \in Months, o \in 1..MaxOccurrence, w \in 0..6}
    \cup {[key |-> "h", type |-> "last_weekday", month |-> m, weekday |-> w] :
              m \in Months, w \in 0..6}

BuiltinHolidays == <<[key |-> "new_years_day", type |-> "fixed", month |-> 1, day |-> 1]>>

Todays ==
    {[y |-> y, m |-> m, d |-> d] : y \in Years, m \in Months, d \in 1..31}
    \cap {dt \in [y : Years, m : Months, d : 1..31] : dt.d <= DaysInMonth(dt.y, dt.m)}

HolidayCalls ==
    {[op |-> "holiday", builtin |-> BuiltinHolidays, custom |-> <<r>>, key |-> "h", today |-> t] :
        r \in HolidayRules, t \in Todays}
    \cup {[op |-> "holiday", builtin |-> BuiltinHolidays, custom |-> <<>>, key |-> k, today |-> t] :
              k \in {"new_years_day", "missing"}, t \in Todays}

HolidayInit ==
    /\ call \in HolidayCalls
    /\ ret = NoRet
    /\ LatchUnused /\ DatesUnused /\ FlowUnused

GetHolidayDate ==
    /\ call.op = "holiday" /\ ret = NoRet
    /\ ret' = [op |-> "get_holiday_date",
               val |-> get_holiday_date(call.builtin, call.today.y, call.key, call.custom)]
    /\ UNCHANGED <<call, latch, now, next_tick, hist, states, wall, between, outside, options, listeners>>

GetDaysToHoliday ==
    /\ call.op = "holiday" /\ ret = NoRet
    /\ ret' = [op |-> "get_days_to_holiday",
               val |-> get_days_to_holiday(call.builtin, call.today, call.key, call.custom)]
    /\ UNCHANGED <<call, latch, now, next_tick, hist, states, wall, between, outside, options, listeners>>

HolidayNext == GetHolidayDate \/ GetDaysToHoliday

SpecHoliday == HolidayInit /\ [][HolidayNext]_vars

----------------------------------------------------------------------------
(* What a holiday rule denotes, stated on the calendar directly.           *)

TheRule == call.custom[1]
TheRuleOrBuiltin == IF call.key = "h" THEN call.custom[1] ELSE call.builtin[1]
ThisYear == call.today.y
KnownRule == call.op = "holiday" /\ call.key = "h"

\* days of month m of year y that fall on weekday w
DaysOn(y, m, w) == {d \in 1..DaysInMonth(y, m) : Weekday([y |-> y, m |-> m, d |-> d]) = w}
MinOf(S) == CHOOSE x \in S : \A z \in S : x <= z
MaxOf(S) == CHOOSE x \in S : \A z \in S : x >= z

WellFormed(r, y) ==
    /\ r.month \in 1..12
    /\ r.type = "fixed" => r.day \in 1..DaysInMonth(y, r.month)
    /\ r.type = "nth_weekday" => r.occurrence >= 1 /\ r.weekday \in 0..6
    /\ r.type = "last_weekday" => r.weekday \in 0..6

Denoted(r, y) ==
    CASE r.type = "fixed" -> [tag |-> "date", y |-> y, m |-> r.month, d |-> r.day]
      [] r.type = "nth_weekday" ->
            LET d == MinOf(DaysOn(y, r.month, r.weekday)) + 7 * (r.occurrence - 1)
            IN IF d <= DaysInMonth(y, r.month)
               THEN [tag |-> "date", y |-> y, m |-> r.month, d |-> d]
               ELSE None
      [] r.type = "last_weekday" ->
            [tag |-> "date", y |-> y, m |-> r.month, d |-> MaxOf(DaysOn(y, r.month, r.weekday))]

\* the rule's date in this year and in the next, as the code resolves them
ResolvedThisYear == get_holiday_date(call.builtin, ThisYear, call.key, call.custom)
ResolvedNextYear == get_holiday_date(call.builtin, ThisYear + 1, call.key, call.custom)
ResolvesBothYears == ResolvedThisYear.tag = "date" /\ ResolvedNextYear.tag = "date"
DaysFromToday(dt) == Ordinal(dt) - Ordinal(call.today)

DaysUntilReference ==
    IF DaysFromToday(ResolvedThisYear) >= 0
    THEN DaysFromToday(ResolvedThisYear)
    ELSE DaysFromToday(ResolvedNextYear)

\* C5 (as stated): for a rule that resolves in both years, daysUntil is the
\* distance to this year's date when it is on or after today, otherwise to
\* next year's date, and the result always lies in 0..366.
C5_DaysUntilWithin366 ==
    (ret.op = "get_days_to_holiday" /\ ResolvesBothYears) =>
        /\ ret.val = IntVal(DaysUntilReference)
        /\ ret.val.v \in 0..366

\* C5 (amended): same distances, but the result lies in 0..370, since the
\* next occurrence of a weekday rule can be 371 days after this year's.
C5_DaysUntilNextOccurrence ==
    (ret.op = "get_days_to_holiday" /\ ResolvesBothYears) =>
        /\ ret.val = IntVal(DaysUntilReference)
        /\ ret.val.v \in 0..370
        /\ (TheRuleOrBuiltin.type = "fixed" => ret.val.v \in 0..365)

C5_Witness ==
    /\ ret.op = "get_days_to_holiday"
    /\ call.key = "new_years_day"
    /\ call.today = [y |-> 2026, m |-> 1, d |-> 2]
    /\ ret.val = IntVal(364)

\* C6: the only negative value daysUntil returns is -1, and it returns -1
\* exactly when the rule resolves in neither year.
C6_OnlySentinelNegative ==
    (ret.op = "get_days_to_holiday" /\ ret.val.tag = "int") =>
        /\ ret.val.v >= -1
        /\ (ret.val.v = -1) <=> (ResolvedThisYear = None /\ ResolvedNextYear = None)

\* C7: resolve returns the calendar date a well-formed rule denotes, and
\* None for an unknown key.
C7_ResolveDenotes ==
    ret.op = "get_holiday_date" =>
        /\ (KnownRule /\ WellFormed(TheRule, ThisYear)) => ret.val = Denoted(TheRule, ThisYear)
        /\ (KnownRule /\ TheRule.type = "last_weekday") => ret.val # None
        /\ call.key = "missing" => ret.val = None

C7_Witness ==
    /\ ret.op = "get_holiday_date"
    /\ KnownRule
    /\ TheRule = [key |-> "h", type |-> "nth_weekday", month |-> 11, occurrence |-> 4, weekday |-> 3]
    /\ ThisYear = 2026
    /\ ret.val = [tag |-> "date", y |-> 2026, m |-> 11, d |-> 26]

C7_WitnessNone ==
    /\ ret.op = "get_holiday_date" /\ KnownRule
    /\ TheRule.type = "nth_weekday" /\ TheRule.occurrence = 5
    /\ ret.val = None

FixedOutOfRange ==
    KnownRule /\ TheRule.type = "fixed" /\ TheRule.day > DaysInMonth(ThisYear, TheRule.month)

\* C8: resolve of a Fixed rule whose day does not exist in the target year
\* returns None without raising, and daysUntil then returns the sentinel.
C8_OutOfRangeFixedIsNone ==
    FixedOutOfRange =>
        /\ ret.op = "get_holiday_date" => ret.val = None
        /\ ret.op = "get_days_to_holiday" => ret.val = IntVal(-1)

----------------------------------------------------------------------------
(* Season calls: one rule under key "s" in the northern table, checked     *)
(* against dates around its boundaries.                                    *)

SeasonRules ==
    {[key |-> "s", start_month |-> sm, start_day |-> sd, end_month |-> em, end_day |-> ed] :
        sm \in {1, 6, 12}, sd \in {1, 21}, em \in {2, 11}, ed \in {20, 28, 29, 30, 31}}

SouthernRule == [key |-> "s", start_month |-> 6, start_day |-> 21, end_month |-> 9, end_day |-> 20]
OtherRule == [key |-> "spring", start_month |-> 3, start_day |-> 20, end_month |-> 6, end_day |-> 20]

SeasonsData(r) == [northern |-> <<OtherRule, r>>, southern |-> <<SouthernRule>>]

CheckDates ==
    {dt \in [y : Years, m : {1, 2, 3, 6, 11, 12}, d : {1, 15, 20, 21, 25, 28, 29, 30}] :
        dt.d <= DaysInMonth(dt.y, dt.m)}

SeasonCalls ==
    {[op |-> "season", seasons |-> SeasonsData(r), key |-> "s", hemisphere |-> "northern",
      check_date |-> dt] : r \in SeasonRules, dt \in CheckDates}
    \cup {[op |-> "season", seasons |-> SeasonsData(SouthernRule), key |-> k, hemisphere |-> h,
           check_date |-> dt] :
              k \in {"s", "nokey"}, h \in {"northern", "southern", "eastern"}, dt \in CheckDates}

SeasonInit ==
    /\ call \in SeasonCalls
    /\ ret = NoRet
    /\ LatchUnused /\ DatesUnused /\ FlowUnused

IsInSeason ==
    /\ call.op = "season" /\ ret = NoRet
    /\ ret' = [op |-> "is_in_season",
               val |-> is_in_season(call.seasons, call.check_date, call.key, call.hemisphere)]
    /\ UNCHANGED <<call, latch, now, next_tick, hist, states, wall, between, outside, options, listeners>>

SeasonNext == IsInSeason

SpecSeason == SeasonInit /\ [][SeasonNext]_vars

\* the rule the claim says is consulted: the one with the key in the
\* hemisphere's table
ConsultedRules ==
    IF call.hemisphere \in DOMAIN call.seasons
    THEN {call.seasons[call.hemisphere][i] : i \in 1..Len(call.seasons[call.hemisphere])}
    ELSE {}
Consulted == {r \in ConsultedRules : r.key = call.key}

\* (month, day) order within one year
MonthDayLE(m1, d1, m2, d2) == m1 < m2 \/ (m1 = m2 /\ d1 <= d2)

LastValidDay(y, m, d) == IF d <= DaysInMonth(y, m) THEN d ELSE DaysInMonth(y, m)

InSeasonReference(r, dt) ==
    LET end_d == LastValidDay(dt.y, r.end_month, r.end_day)
        afterStart == MonthDayLE(r.start_month, r.start_day, dt.m, dt.d)
        beforeEnd == MonthDayLE(dt.m, dt.d, r.end_month, end_d)
    IN IF r.start_month > r.end_month THEN afterStart \/ beforeEnd ELSE afterStart /\ beforeEnd

\* C9: isInSeason builds start and end in date.year, with end clamped to
\* the last valid day of end_month for that year, and returns date >= start
\* OR date <= end for a wrapping rule and start <= date <= end otherwise; a
\* missing key or hemisphere yields false.
C9_InSeasonClampedToLastValidDay ==
    ret.op = "is_in_season" =>
        /\ Consulted = {} => ret.val = BoolVal(FALSE)
        /\ \A r \in Consulted :
              r.start_day <= DaysInMonth(call.check_date.y, r.start_month)
                 => ret.val = BoolVal(InSeasonReference(r, call.check_date))

----------------------------------------------------------------------------
(* Offset calls: "<value> <unit>" strings assembled from a value token, a  *)
(* unit token and whitespace, so that what the text denotes is known       *)
(* independently of the parser.                                            *)

MaxPad == 1

ValueTokens ==
    { [text |-> <<"5">>, int |-> 5, isint |-> TRUE], [text |-> <<"-", "5">>, int |-> -5, isint |-> TRUE],
      [text |-> <<"0">>, int |-> 0, isint |-> TRUE], [text |-> <<"+", "3">>, int |-> 3, isint |-> TRUE],
      [text |-> <<"1", "2">>, int |-> 12, isint |-> TRUE], [text |-> <<"-", "3", "0">>, int |-> -30, isint |-> TRUE],
      [text |-> <<"1", ".", "5">>, int |-> 0, isint |-> FALSE], [text |-> <<"x">>, int |-> 0, isint |-> FALSE] }

UnitTokens ==
    { [text |-> <<"s","e","c","o","n","d">>, mult |-> 1],
      [text |-> <<"S","e","c","o","n","d","s">>, mult |-> 1],
      [text |-> <<"m","i","n","u","t","e">>, mult |-> 60],
      [text |-> <<"m","i","n","u","t","e","s">>, mult |-> 60],
      [text |-> <<"H","O","U","R">>, mult |-> 3600],
      [text |-> <<"h","o","u","r","s">>, mult |-> 3600],
      [text |-> <<"d","a","y">>, mult |-> 86400],
      [text |-> <<"D","A","Y","S">>, mult |-> 86400],
      [text |-> <<"w","e","e","k">>, mult |-> 604800],
      [text |-> <<"w","e","e","k","s">>, mult |-> 604800],
      [text |-> <<"h","o","u","r","s","s">>, mult |-> 0],
      [text |-> <<"s">>, mult |-> 0],
      [text |-> <<"s","e","c">>, mult |-> 0],
      [text |-> <<"y","e","a","r","s">>, mult |-> 0] }

ExtraTokens == {<<>>, <<"a","g","o">>}

Spaces(n) == [i \in 1..n |-> " "]

OffsetText(v, u, lead, sep, trail, extra) ==
    Spaces(lead) \o v.text \o Spaces(sep) \o u.text
        \o (IF Len(extra) > 0 THEN <<" ">> \o extra ELSE <<>>) \o Spaces(trail)

OffsetCalls ==
    {[op |-> "offset", text |-> Str(OffsetText(v, u, lead, sep, trail, extra)),
      value |-> v, unit |-> u, extra |-> extra] :
        v \in ValueTokens, u \in UnitTokens, lead \in 0..MaxPad, sep \in 1..(MaxPad + 1),
        trail \in 0..MaxPad, extra \in ExtraTokens}
    \cup {[op |-> "offset", text |-> t, value |-> [text |-> <<>>, int |-> 0, isint |-> FALSE],
           unit |-> [text |-> <<>>, mult |-> 0], extra |-> <<>>] :
              t \in {None, Str(<<>>), Str(<<" ", " ">>), Str(<<"5">>),
                     Str(<<"h","o","u","r">>), Str(<<"6","0">>)}}

OffsetInit ==
    /\ call \in OffsetCalls
    /\ ret = NoRet
    /\ LatchUnused /\ DatesUnused /\ FlowUnused

\* Bases an offset is applied to: midnight, mid-day and the last second of a day
Bases == {Timestamp(0, 0), Timestamp(3, 43200), Timestamp(7, 86399)}

\* the configuration form validates an offset text before a sensor parses it
ValidateOffsetString ==
    /\ call.op = "offset" /\ ret = NoRet
    /\ ret' = [op |-> "validate_offset_string", val |-> validate_offset_string(call.text)]
    /\ UNCHANGED <<call, latch, now, next_tick, hist, states, wall, between, outside, options, listeners>>

ParseOffset ==
    /\ call.op = "offset" /\ ret.op \in {"none", "validate_offset_string"}
    /\ ret' = [op |-> "parse_offset", val |-> IntVal(parse_offset(call.text)),
               validated |-> IF ret.op = "none" THEN None ELSE ret.val]
    /\ UNCHANGED <<call, latch, now, next_tick, hist, states, wall, between, outside, options, listeners>>

ApplyOffsetToDatetime ==
    /\ call.op = "offset" /\ ret = NoRet
    /\ \E base \in Bases \cup {None} :
          ret' = [op |-> "apply_offset_to_datetime", base |-> base,
                  val |-> apply_offset_to_datetime(base, call.text)]
    /\ UNCHANGED <<call, latch, now, next_tick, hist, states, wall, between, outside, options, listeners>>

OffsetNext == ValidateOffsetString \/ ParseOffset \/ ApplyOffsetToDatetime

SpecOffset == OffsetInit /\ [][OffsetNext]_vars

\* C10: when the first token is an integer v and the second a recognized
\* unit (any case, optional trailing "s", any whitespace around), parse_offset
\* returns v times the unit multiplier with the sign of v; a non-integer
\* value gives 0.
C10_ParseOffsetValue ==
    ret.op = "parse_offset" =>
        /\ (call.value.isint /\ call.unit.mult # 0)
              => ret.val = IntVal(call.value.int * call.unit.mult)
        /\ (Len(call.value.text) > 0 /\ ~call.value.isint) => ret.val = IntVal(0)

C10_Witness ==
    /\ ret.op = "parse_offset"
    /\ call.text = Str(<<"-", "5", " ", "m","i","n","u","t","e","s">>)
    /\ ret.val = IntVal(-300)

C10_WitnessNonInteger ==
    /\ ret.op = "parse_offset"
    /\ call.value.text = <<"1", ".", "5">> /\ call.unit.mult = 3600
    /\ ret.val = IntVal(0)

----------------------------------------------------------------------------

\* The text is exactly two tokens: a value token and a unit token.
TwoTokens == Len(call.value.text) > 0 /\ Len(call.extra) = 0

\* ... an integer followed by one of the five units, singular or plural
IntegerAndUnit == TwoTokens /\ call.value.isint /\ call.unit.mult # 0

Sign(v) == IF v > 0 THEN 1 ELSE IF v < 0 THEN -1 ELSE 0

\* C11 as stated: for every "<int> <unit>" text, parse_offset returns
\* sign(value) * value * multiplier, that is, the magnitude of the value
\* times the multiplier.
C11_SignTimesValue ==
    (ret.op = "parse_offset" /\ IntegerAndUnit)
        => ret.val = IntVal(Sign(call.value.int) * call.value.int * call.unit.mult)

\* C11: for every "<int> <unit>" text, validate_offset_string accepts the
\* text exactly when parse_offset returns a non-zero count, and parse_offset
\* returns value * multiplier with the sign of the value kept.
C11_AgreeAndSigned ==
    (ret.op = "parse_offset" /\ ret.validated # None /\ IntegerAndUnit)
        => /\ ret.validated.ok <=> (ret.val # IntVal(0))
           /\ ret.val = IntVal(call.value.int * call.unit.mult)

C11_Witness ==
    /\ ret.op = "parse_offset" /\ ret.validated # None /\ IntegerAndUnit
    /\ call.value.int = -30 /\ call.unit.mult = 60
    /\ ret.validated.ok /\ ret.val = IntVal(-1800)

C11_WitnessZero ==
    /\ ret.op = "parse_offset" /\ ret.validated # None /\ IntegerAndUnit
    /\ call.value.int = 0
    /\ ~ret.validated.ok /\ ret.val = IntVal(0)

\* str.rstrip('s') drops every trailing "s", so a doubled plural is a unit too
Recognized(u) == u.mult # 0 \/ u.text = <<"h","o","u","r","s","s">>

C12_WitnessRejected ==
    /\ ret.op = "validate_offset_string"
    /\ call.value.int = 5 /\ call.unit.mult = 3600 /\ Len(call.extra) > 0
    /\ ~ret.val.ok /\ ret.val.error = Word("Offset must contain only value and unit")

C12_WitnessMissing ==
    /\ ret.op = "validate_offset_string"
    /\ call.text = None
    /\ ret.val = Result(FALSE, Word("Offset is required"))

Seconds(ts) == ts.d * 86400 + ts.s

\* C13: for every base that is not None and every text, apply_offset_to_datetime
\* returns the base moved by parse_offset(text) seconds: the base itself when
\* the text is empty or does not parse, and the base plus value * multiplier
\* seconds when it does.
C13_ApplyAddsParsedSeconds ==
    (ret.op = "apply_offset_to_datetime" /\ ret.base # None)
        => /\ ret.val.tag = "timestamp" /\ ret.val.s \in 0..86399
           /\ Seconds(ret.val) = Seconds(ret.base) + parse_offset(call.text)
           /\ (call.value.isint /\ call.unit.mult # 0)
                 => Seconds(ret.val) = Seconds(ret.base) + call.value.int * call.unit.mult
           /\ (~call.value.isint \/ call.text = None) => ret.val = ret.base

C13_Witness ==
    /\ ret.op = "apply_offset_to_datetime"
    /\ ret.base = Timestamp(0, 0)
    /\ call.text = Str(<<"-", "5", " ", "m","i","n","u","t","e","s">>)
    /\ ret.val = Timestamp(-1, 86100)

C13_WitnessUnparsable ==
    /\ ret.op = "apply_offset_to_datetime"
    /\ ret.base = Timestamp(7, 86399)
    /\ call.value.text = <<"x">> /\ call.unit.mult = 60
    /\ ret.val = ret.base

\* C25: parse_offset returns 0, without raising, whenever the text is empty
\* or blank, has a token count other than two (one token, three or more),
\* has a non-integer value, or has an unrecognized unit.
C25_FailsUnlessTwoTokens ==
    (ret.op = "parse_offset" /\ (~TwoTokens \/ ~call.value.isint \/ call.unit.mult = 0))
        => ret.val = IntVal(0)

----------------------------------------------------------------------------
(* Range calls: point, start and end over a few days and hours, all naive, *)
(* all aware (with either of two offsets), or mixed.                       *)

MaxDay == 2
Hours == {2, 4, 10, 21, 22, 23}

TzCombos ==
    {<<[aware |-> FALSE, off |-> 0], [aware |-> FALSE, off |-> 0], [aware |-> FALSE, off |-> 0]>>}
    \cup {<<[aware |-> TRUE, off |-> a], [aware |-> TRUE, off |-> b], [aware |-> TRUE, off |-> c]>> :
              a \in {0, 1}, b \in {0, 1}, c \in {0, 1}}
    \cup {<<[aware |-> FALSE, off |-> 0], [aware |-> TRUE, off |-> 0], [aware |-> TRUE, off |-> 0]>>,
          <<[aware |-> TRUE, off |-> 0], [aware |-> FALSE, off |-> 0], [aware |-> TRUE, off |-> 0]>>,
          <<[aware |-> TRUE, off |-> 0], [aware |-> TRUE, off |-> 0], [aware |-> FALSE, off |-> 0]>>}

RangeCalls ==
    {[op |-> "range",
      check |-> DateTime(cd, ct, tz[1].aware, tz[1].off),
      start |-> DateTime(sd, st, tz[2].aware, tz[2].off),
      end |-> DateTime(ed, et, tz[3].aware, tz[3].off)] :
        cd \in 0..MaxDay, ct \in Hours, sd \in 0..MaxDay, st \in Hours,
        ed \in 0..MaxDay, et \in Hours, tz \in TzCombos}
    \cup {[op |-> "range", check |-> c, start |-> a, end |-> b] :
              c \in {None, DateTime(0, 10, FALSE, 0)},
              a \in {None, DateTime(0, 4, FALSE, 0)},
              b \in {None, DateTime(0, 23, FALSE, 0)}}

\* Two ranges over four naive points, over four aware points of which two
\* are the same instant in different zones, with one end on the other
\* time-zone basis, or with ends missing.
NaivePoints == {DateTime(0, 4, FALSE, 0), DateTime(0, 22, FALSE, 0),
                DateTime(1, 4, FALSE, 0), DateTime(1, 22, FALSE, 0)}
AwarePoints == {DateTime(0, 21, TRUE, 0), DateTime(0, 22, TRUE, 1),
                DateTime(0, 23, TRUE, 0), DateTime(1, 4, TRUE, 0)}

OverlapCalls ==
    {[op |-> "overlap", range1_start |-> a, range1_end |-> b, range2_start |-> c, range2_end |-> d] :
        a \in NaivePoints, b \in NaivePoints, c \in NaivePoints, d \in NaivePoints}
    \cup {[op |-> "overlap", range1_start |-> a, range1_end |-> b, range2_start |-> c, range2_end |-> d] :
              a \in AwarePoints, b \in AwarePoints, c \in AwarePoints, d \in AwarePoints}
    \cup {[op |-> "overlap", range1_start |-> a, range1_end |-> b, range2_start |-> c, range2_end |-> d] :
              a \in {DateTime(0, 22, FALSE, 0), DateTime(0, 22, TRUE, 1)},
              b \in {DateTime(0, 4, FALSE, 0), DateTime(1, 4, TRUE, 0)},
              c \in {DateTime(0, 4, FALSE, 0), DateTime(0, 21, TRUE, 0)},
              d \in {DateTime(1, 22, FALSE, 0), DateTime(1, 4, TRUE, 0)}}
    \cup {[op |-> "overlap", range1_start |-> a, range1_end |-> b, range2_start |-> c, range2_end |-> d] :
              a \in {None, DateTime(0, 4, FALSE, 0)}, b \in {None, DateTime(0, 22, FALSE, 0)},
              c \in {None, DateTime(1, 4, FALSE, 0)}, d \in {None, DateTime(1, 22, FALSE, 0)}}

RangeInit ==
    /\ call \in RangeCalls \cup OverlapCalls
    /\ ret = NoRet
    /\ LatchUnused /\ DatesUnused /\ FlowUnused

IsDatetimeBetween ==
    /\ call.op = "range" /\ ret = NoRet
    /\ ret' = [op |-> "is_datetime_between",
               val |-> is_datetime_between(call.check, call.start, call.end)]
    /\ UNCHANGED <<call, latch, now, next_tick, hist, states, wall, between, outside, options, listeners>>

DoRangesOverlap ==
    /\ call.op = "overlap" /\ ret = NoRet
    /\ ret' = [op |-> "do_ranges_overlap",
               val |-> do_ranges_overlap(call.range1_start, call.range1_end,
                                         call.range2_start, call.range2_end)]
    /\ UNCHANGED <<call, latch, now, next_tick, hist, states, wall, between, outside, options, listeners>>

GetRangeOverlap ==
    /\ call.op = "overlap" /\ ret = NoRet
    /\ ret' = [op |-> "get_range_overlap",
               val |-> get_range_overlap(call.range1_start, call.range1_end,
                                         call.range2_start, call.range2_end)]
    /\ UNCHANGED <<call, latch, now, next_tick, hist, states, wall, between, outside, options, listeners>>

RangeNext == IsDatetimeBetween \/ DoRangesOverlap \/ GetRangeOverlap

SpecRange == RangeInit /\ [][RangeNext]_vars

NonNull == call.check # None /\ call.start # None /\ call.end # None
Comparable == call.check.aware = call.start.aware /\ call.start.aware = call.end.aware

\* the instant of a timestamp, in hours
Instant(x) == x.d * 24 + x.t - (IF x.aware THEN x.off ELSE 0)
InstantBetween(p, a, b) == Instant(a) <= Instant(p) /\ Instant(p) <= Instant(b)

BetweenReference(p, a, b) ==
    IF a.d = b.d
    THEN IF p.d = a.d THEN InstantBetween(p, a, b)
         ELSE IF a.t <= b.t THEN (a.t <= p.t /\ p.t <= b.t)
              ELSE (p.t >= a.t \/ p.t <= b.t)
    ELSE InstantBetween(p, a, b)

\* C3: for non-null inputs on one time-zone basis, isBetween is the
\* three-case reference: full timestamps when start and end share the
\* point's date or lie on different dates, time of day (with the overnight
\* window) when they share a date that is not the point's; bounds inclusive.
C3_IsBetweenThreeCases ==
    (ret.op = "is_datetime_between" /\ NonNull /\ Comparable) =>
        ret.val = BoolVal(BetweenReference(call.check, call.start, call.end))

C3_Witness ==
    /\ ret.op = "is_datetime_between"
    /\ call.start = DateTime(0, 22, FALSE, 0) /\ call.end = DateTime(0, 4, FALSE, 0)
    /\ call.check = DateTime(1, 23, FALSE, 0)
    /\ ret.val = BoolVal(TRUE)

C3_WitnessDaily ==
    /\ ret.op = "is_datetime_between"
    /\ call.start = DateTime(0, 4, FALSE, 0) /\ call.end = DateTime(0, 23, FALSE, 0)
    /\ call.check = DateTime(1, 2, FALSE, 0)
    /\ ret.val = BoolVal(FALSE)

RangeEnds == {call.range1_start, call.range1_end, call.range2_start, call.range2_end}

\* C14: is_datetime_between and do_ranges_overlap answer a missing (None)
\* timestamp argument with a raised ValueError, never with False or any
\* other return value.
C14_MissingArgumentRaises ==
    /\ (ret.op = "is_datetime_between" /\ ~NonNull) => ret.val = Raise("ValueError")
    /\ (ret.op = "do_ranges_overlap" /\ None \in RangeEnds) => ret.val = Raise("ValueError")

C14_Witness ==
    /\ ret.op = "do_ranges_overlap"
    /\ call.range1_start = DateTime(0, 4, FALSE, 0) /\ call.range1_end = DateTime(0, 22, FALSE, 0)
    /\ call.range2_start = DateTime(1, 4, FALSE, 0) /\ call.range2_end = None
    /\ ret.val = Raise("ValueError")

C14_WitnessBetween ==
    /\ ret.op = "is_datetime_between"
    /\ call.check = None /\ call.start # None /\ call.end # None
    /\ ret.val = Raise("ValueError")

OneBasis == \A a \in RangeEnds : \A b \in RangeEnds : a # None /\ b # None /\ a.aware = b.aware

\* the overlap of two ranges by the instants of their ends
OverlapReference ==
    ~(Instant(call.range1_end) < Instant(call.range2_start)
      \/ Instant(call.range2_end) < Instant(call.range1_start))

\* C18: for four timestamps on one time-zone basis do_ranges_overlap is
\* not (r1.end < r2.start or r2.end < r1.start), so ranges touching at an
\* endpoint overlap and the answer is the same with the two ranges swapped;
\* get_range_overlap returns (max of the starts, min of the ends) exactly
\* when the ranges overlap and None otherwise.
C18_OverlapIsNotApart ==
    /\ (ret.op = "do_ranges_overlap" /\ OneBasis)
          => /\ ret.val = BoolVal(OverlapReference)
             /\ ret.val = do_ranges_overlap(call.range2_start, call.range2_end,
                                            call.range1_start, call.range1_end)
    /\ (ret.op = "get_range_overlap" /\ OneBasis)
          => IF OverlapReference
             THEN /\ ret.val.tag = "overlap"
                  /\ ret.val.start \in {call.range1_start, call.range2_start}
                  /\ ret.val.end \in {call.range1_end, call.range2_end}
                  /\ Instant(ret.val.start)
                        = MaxOf({Instant(call.range1_start), Instant(call.range2_start)})
                  /\ Instant(ret.val.end)
                        = MinOf({Instant(call.range1_end), Instant(call.range2_end)})
             ELSE ret.val = None

\* the first range ends at the instant the second one starts
C18_Witness ==
    /\ ret.op = "do_ranges_overlap"
    /\ call.range1_start = DateTime(0, 21, TRUE, 0) /\ call.range1_end = DateTime(0, 22, TRUE, 1)
    /\ call.range2_start = DateTime(0, 21, TRUE, 0) /\ call.range2_end = DateTime(1, 4, TRUE, 0)
    /\ ret.val = BoolVal(TRUE)

C18_WitnessOverlap ==
    /\ ret.op = "get_range_overlap"
    /\ call.range1_start = DateTime(0, 4, FALSE, 0) /\ call.range1_end = DateTime(1, 4, FALSE, 0)
    /\ call.range2_start = DateTime(0, 22, FALSE, 0) /\ call.range2_end = DateTime(1, 22, FALSE, 0)
    /\ ret.val = Overlap(DateTime(0, 22, FALSE, 0), DateTime(1, 4, FALSE, 0))

C18_WitnessApart ==
    /\ ret.op = "get_range_overlap"
    /\ call.range1_start = DateTime(0, 4, FALSE, 0) /\ call.range1_end = DateTime(0, 22, FALSE, 0)
    /\ call.range2_start = DateTime(1, 4, FALSE, 0) /\ call.range2_end = DateTime(1, 22, FALSE, 0)
    /\ ret.val = None

\* the point moved to day d, its time of day kept
OnDay(p, d) == [p EXCEPT !.d = d]

\* start and end lie on the same calendar date
DailyWindow ==
    /\ ret.op = "is_datetime_between" /\ NonNull /\ Comparable
    /\ call.start.d = call.end.d

TimeOfDayInside(p, a, b) ==
    IF a.t <= b.t THEN a.t <= p.t /\ p.t <= b.t
    ELSE p.t >= a.t \/ p.t <= b.t

C30_WitnessOwnDate ==
    /\ ret.op = "is_datetime_between"
    /\ call.start = DateTime(0, 22, FALSE, 0) /\ call.end = DateTime(0, 4, FALSE, 0)
    /\ call.check = DateTime(0, 23, FALSE, 0)
    /\ ret.val = BoolVal(FALSE)

----------------------------------------------------------------------------
(* The between-dates and the outside-dates sensor of one pair of datetime  *)
(* entities.  A state change of either entity runs both listeners; each    *)
(* sensor also has its own one-minute timer.  "fresh" records that a       *)
(* sensor's last evaluation read the present entity states and clock.      *)

LocalOffset == 1
WallHours == {2, 10, 23}

EntityDateTimes ==
    {DateTime(d, t, aw, 0) : d \in 0..(MaxDay - 1), t \in {4, 22}, aw \in BOOLEAN}

EntityStates ==
    {None, StateText("empty", None), StateText("junk", None)}
    \cup {StateText("date", DateTime(d, 0, FALSE, 0)) : d \in 0..(MaxDay - 1)}
    \cup {StateText("datetime", dt) : dt \in EntityDateTimes}

CurrentDatetime == DateTime(wall.d, wall.t, TRUE, LocalOffset)

WallLater == {w \in [d : 0..MaxDay, t : WallHours] :
                 w.d > wall.d \/ (w.d = wall.d /\ w.t > wall.t)}

DatesInit ==
    /\ states \in [start : EntityStates, end : {None, StateText("datetime", DateTime(0, 22, FALSE, 0))}]
    /\ wall = [d |-> 0, t |-> 2]
    /\ between = SensorIdle
    /\ outside = SensorIdle
    /\ PureUnused /\ LatchUnused /\ FlowUnused

\* both entities exist and their states are a date or a datetime
Present(hass_states) ==
    /\ hass_states.start # None /\ hass_states.end # None
    /\ hass_states.start.form \in {"date", "datetime"}
    /\ hass_states.end.form \in {"date", "datetime"}

\* ClockworkBetweenDatesSensor.async_added_to_hass: subscribe, then the
\* initial _update_state
BetweenAdded ==
    /\ ~between.added
    /\ between' = [is_on |-> between_update_state(states, CurrentDatetime, between.is_on),
                   added |-> TRUE, fresh |-> TRUE,
                   valid |-> Present(states), recovered |-> FALSE]
    /\ UNCHANGED <<call, ret, latch, now, next_tick, hist, states, wall, outside, options, listeners>>

OutsideAdded ==
    /\ ~outside.added
    /\ outside' = [is_on |-> outside_update_state(states, CurrentDatetime, outside.is_on),
                   added |-> TRUE, fresh |-> TRUE,
                   valid |-> Present(states), recovered |-> FALSE]
    /\ UNCHANGED <<call, ret, latch, now, next_tick, hist, states, wall, between, options, listeners>>

\* an entity's state changes (or the entity is removed): the
\* datetime_change_listener of every added sensor runs _update_state
EntityChange ==
    \E which \in {"start", "end"}, v \in EntityStates :
        /\ states[which] # v
        /\ states' = [states EXCEPT ![which] = v]
        /\ between' = IF between.added
                      THEN [between EXCEPT
                              !.is_on = between_update_state(states', CurrentDatetime, between.is_on),
                              !.fresh = TRUE,
                              !.valid = Present(states'),
                              !.recovered = ~between.valid /\ Present(states')]
                      ELSE [between EXCEPT !.fresh = FALSE]
        /\ outside' = IF outside.added
                      THEN [outside EXCEPT
                              !.is_on = outside_update_state(states', CurrentDatetime, outside.is_on),
                              !.fresh = TRUE,
                              !.valid = Present(states'),
                              !.recovered = ~outside.valid /\ Present(states')]
                      ELSE [outside EXCEPT !.fresh = FALSE]
        /\ UNCHANGED <<call, ret, latch, now, next_tick, hist, wall, options, listeners>>

\* check_between fires, possibly after the clock has moved on
BetweenTick ==
    \E w \in WallLater \cup {wall} :
        /\ between.added
        /\ wall' = w
        /\ between' = [between EXCEPT
                          !.is_on = between_update_state(states,
                                        DateTime(w.d, w.t, TRUE, LocalOffset), between.is_on),
                          !.fresh = TRUE,
                          !.valid = Present(states),
                          !.recovered = ~between.valid /\ Present(states)]
        /\ outside' = [outside EXCEPT !.fresh = outside.fresh /\ w = wall]
        /\ UNCHANGED <<call, ret, latch, now, next_tick, hist, states, options, listeners>>

\* check_outside fires, possibly after the clock has moved on
OutsideTick ==
    \E w \in WallLater \cup {wall} :
        /\ outside.added
        /\ wall' = w
        /\ outside' = [outside EXCEPT
                          !.is_on = outside_update_state(states,
                                        DateTime(w.d, w.t, TRUE, LocalOffset), outside.is_on),
                          !.fresh = TRUE,
                          !.valid = Present(states),
                          !.recovered = ~outside.valid /\ Present(states)]
        /\ between' = [between EXCEPT !.fresh = between.fresh /\ w = wall]
        /\ UNCHANGED <<call, ret, latch, now, next_tick, hist, states, options, listeners>>

DatesNext == BetweenAdded \/ OutsideAdded \/ EntityChange \/ BetweenTick \/ OutsideTick

SpecDates == DatesInit /\ [][DatesNext]_vars

BothEvaluatedSameInputs == between.added /\ outside.added /\ between.fresh /\ outside.fresh

InputsParsable ==
    /\ states.start # None /\ states.end # None
    /\ parse_datetime_or_date(states.start) # None
    /\ parse_datetime_or_date(states.end) # None

\* C4 (as stated): for every input, whenever both signals were evaluated
\* over the same point, start and end, the outside-dates output is the
\* negation of the between-dates output.
C4_ComplementsForEveryInput ==
    BothEvaluatedSameInputs => (outside.is_on = ~between.is_on)

\* C4 (amended): the two outputs are complements whenever both start and
\* end are present and parsable; when either is missing or unparsable both
\* outputs are false.
C4_ComplementsWhenInputsValid ==
    BothEvaluatedSameInputs =>
        /\ InputsParsable => (outside.is_on = ~between.is_on)
        /\ ~InputsParsable => (~outside.is_on /\ ~between.is_on)

C4_Witness ==
    /\ BothEvaluatedSameInputs /\ InputsParsable
    /\ outside.is_on /\ ~between.is_on
    /\ wall.d > 0

C4_WitnessInside == BothEvaluatedSameInputs /\ InputsParsable /\ between.is_on /\ ~outside.is_on

\* a start or end input in the sensor's local time zone: a date is its
\* midnight, a naive datetime is taken as local, an aware one is kept
Localized(state) ==
    IF state.form = "date" THEN DateTime(state.dt.d, 0, TRUE, LocalOffset)
    ELSE IF state.dt.aware THEN state.dt
    ELSE DateTime(state.dt.d, state.dt.t, TRUE, LocalOffset)

FromCurrentInputs ==
    BetweenReference(CurrentDatetime, Localized(states.start), Localized(states.end))

\* C17: at every evaluation at which start and end are present and
\* parsable, and so at the first one after any number of failed
\* evaluations, the between-dates output is the value is_datetime_between
\* has for the current time and the current inputs, and the outside-dates
\* output is its negation, whatever output the earlier evaluations left.
C17_RecoversFromCurrentInputs ==
    /\ (between.added /\ between.fresh /\ Present(states))
          => between.is_on = FromCurrentInputs
    /\ (outside.added /\ outside.fresh /\ Present(states))
          => outside.is_on = ~FromCurrentInputs

\* the evaluation before this one failed, this one finds the point inside
C17_Witness ==
    /\ between.added /\ between.fresh /\ between.recovered
    /\ Present(states) /\ between.is_on

C17_WitnessOutside ==
    /\ outside.added /\ outside.fresh /\ outside.recovered
    /\ Present(states) /\ ~outside.is_on

\* a valid evaluation turns off an output that earlier inputs had left on
C17_WitnessTurnsOff ==
    /\ between.added /\ between.fresh /\ between.valid /\ ~between.recovered
    /\ wall.d > 0 /\ ~between.is_on /\ outside.is_on

----------------------------------------------------------------------------
(* One offset sensor, added to hass at time 0: source changes arrive at    *)
(* any time, check_trigger fires every TickInterval seconds.  hist keeps   *)
(* what the last callback was, the trigger time of the last arming and     *)
(* whether the source has been quiet since.                                *)

MaxTime == 130
Gaps == {0, 10, 40}

OffsetTexts ==
    {None, Str(<<"3","0"," ","s","e","c","o","n","d","s">>),
     Str(<<"-","3","0"," ","s","e","c","o","n","d","s">>), Str(<<"s","o","o","n">>)}

PulseTexts ==
    {None, Str(<<"1","0"," ","s","e","c","o","n","d","s">>), Str(<<"1"," ","m","i","n","u","t","e">>)}

LatchConfigs ==
    [offset : OffsetTexts, pulse_duration : PulseTexts,
     offset_mode : {None, Word("pulse"), Word("duration"), Word("latch")},
     trigger_on : {None, Word("on"), Word("off"), Word("both")}]

NewStates == {None, State("on"), State("off"), State("unavailable")}

\* a change to v is one the configured trigger_on matches
Matches(self, new_state) ==
    /\ new_state # None
    /\ \/ new_state.state = "on" /\ self.trigger_on \in {"on", "both"}
       \/ new_state.state = "off" /\ self.trigger_on \in {"off", "both"}

LatchInit ==
    /\ \E config \in LatchConfigs : latch = OffsetBinarySensor(config)
    /\ now = 0
    /\ next_tick = TickInterval
    /\ hist = HistIdle
    /\ listeners = added_to_hass
    /\ PureUnused /\ DatesUnused /\ FlowUnused

\* the new state makes state_change_listener call _update_state
Evaluates(self, new_state) ==
    /\ new_state # None
    /\ \/ new_state.state = "on"
       \/ new_state.state = "off" /\ self.trigger_on \in {"off", "both"}

SourceChange ==
    \E new_state \in NewStates, gap \in Gaps :
        /\ "state_change" \in listeners.tracked
        /\ now + gap <= next_tick
        /\ now + gap <= MaxTime
        /\ now' = now + gap
        /\ latch' = state_change_listener(latch, new_state, now')
        /\ hist' = IF Matches(latch, new_state)
                   THEN [event |-> "arm", armed_at |-> Time(now' + latch.offset_seconds),
                         quiet |-> TRUE, handled |-> TRUE, removed |-> FALSE,
                         eval_at |-> Time(now'), unloaded |-> hist.unloaded,
                         was_on |-> latch.is_on, was_armed |-> latch.trigger_time # None,
                         had_armed |-> hist.armed_at # None]
                   ELSE [hist EXCEPT !.event = "change", !.quiet = FALSE,
                                     !.handled = (new_state # None /\ new_state.state \in {"on", "off"}),
                                     !.removed = (new_state = None),
                                     !.eval_at = IF Evaluates(latch, new_state)
                                                 THEN Time(now') ELSE @,
                                     !.was_on = latch.is_on,
                                     !.was_armed = latch.trigger_time # None,
                                     !.had_armed = hist.armed_at # None]
        /\ UNCHANGED <<call, ret, next_tick, states, wall, between, outside, options, listeners>>

Tick ==
    /\ "time_interval" \in listeners.tracked
    /\ next_tick <= MaxTime
    /\ now' = next_tick
    /\ next_tick' = next_tick + TickInterval
    /\ latch' = update_state(latch, now')
    /\ hist' = [hist EXCEPT !.event = "tick", !.handled = TRUE, !.eval_at = Time(now'),
                             !.was_on = FALSE, !.was_armed = FALSE, !.had_armed = FALSE]
    /\ UNCHANGED <<call, ret, states, wall, between, outside, options, listeners>>

\* the sensor is removed from hass
WillRemoveFromHass ==
    /\ ~hist.unloaded
    /\ listeners' = will_remove_from_hass(listeners)
    /\ hist' = [hist EXCEPT !.event = "remove", !.unloaded = TRUE]
    /\ UNCHANGED <<call, ret, latch, now, next_tick, states, wall, between, outside, options>>

LatchNext == SourceChange \/ Tick \/ WillRemoveFromHass

SpecLatch == LatchInit /\ [][LatchNext]_vars

\* async_track_time_interval calls check_trigger every minute for as long as
\* the subscription is held
SpecLatchLive == LatchInit /\ [][LatchNext]_vars /\ WF_vars(Tick)

ArmedAndQuiet == hist.armed_at # None /\ hist.quiet

\* C1: in Pulse mode, after an arming with triggerTime = T and no further
\* source change, every evaluation at time t leaves the output true iff
\* T <= t < T + pulseDurationSeconds, and triggerTime is cleared by the
\* first evaluation at t >= T + pulseDurationSeconds (and not before).
C1_PulseWindow ==
    (latch.mode = "pulse" /\ ArmedAndQuiet) =>
        LET T == hist.armed_at.v
            pulse_end == T + latch.pulse_duration_seconds
        IN /\ latch.is_on <=> (T <= now /\ now < pulse_end)
           /\ now >= pulse_end => latch.trigger_time = None
           /\ now < pulse_end => latch.trigger_time = Time(T)

C1_Witness ==
    /\ latch.mode = "pulse" /\ ArmedAndQuiet /\ hist.event = "tick"
    /\ latch.is_on
    /\ latch.pulse_duration_seconds = 60

C1_WitnessExpired ==
    /\ latch.mode = "pulse" /\ ArmedAndQuiet /\ hist.event = "tick"
    /\ ~latch.is_on /\ latch.trigger_time = None
    /\ latch.pulse_duration_seconds = 60
    /\ now >= hist.armed_at.v + 60

\* C2: in Latch mode, once the output is true it stays true, and
\* triggerTime stays as it is, across every tick and every non-arming
\* source event; only a matching source change can change either.
C2_LatchHolds ==
    [][(latch.mode = "latch" /\ latch.is_on /\ hist'.event # "arm")
          => (latch'.is_on /\ latch'.trigger_time = latch.trigger_time)]_vars

C2_Witness ==
    /\ latch.mode = "latch" /\ latch.is_on
    /\ hist.event = "tick" /\ ~hist.quiet
    /\ now >= 2 * TickInterval

\* the configured offset text is missing or is not an offset
UnparsableOffset == latch.config.offset \in {None, Str(<<"s","o","o","n">>)}

ZeroOffsetConfig == [latch.config EXCEPT !.offset = Str(<<"0"," ","s","e","c","o","n","d","s">>)]

\* C15: a sensor configured with a missing or unparsable offset is the
\* sensor configured with a zero offset: it is constructed with
\* offset_seconds = 0, a matching source change arms it at now, so that in
\* latch and duration mode the output is true after that same callback, and
\* in every mode every callback leaves a boolean output.
C15_UnparsableOffsetIsZero ==
    /\ latch.is_on \in BOOLEAN
    /\ UnparsableOffset =>
          /\ latch.offset_seconds = 0
          /\ hist.event = "none"
                => [latch EXCEPT !.config = ZeroOffsetConfig] = OffsetBinarySensor(ZeroOffsetConfig)
          /\ (hist.event = "arm" /\ latch.mode \in {"latch", "duration"})
                => latch.trigger_time = Time(now) /\ latch.is_on
          /\ (hist.event = "arm" /\ latch.mode = "pulse")
                => /\ latch.is_on <=> latch.pulse_duration_seconds > 0
                   /\ latch.trigger_time
                         = IF latch.pulse_duration_seconds > 0 THEN Time(now) ELSE None

C15_Witness ==
    /\ latch.config.offset = None /\ latch.mode = "duration"
    /\ hist.event = "arm" /\ now > 0
    /\ latch.trigger_time = Time(now) /\ latch.is_on

C15_WitnessUnparsable ==
    /\ latch.config.offset = Str(<<"s","o","o","n">>) /\ latch.mode = "latch"
    /\ hist.event = "arm" /\ now > 0
    /\ latch.trigger_time = Time(now) /\ latch.is_on

\* C16: every evaluation made after the source entity has been removed
\* leaves the offset sensor off, not at the output it had while the source
\* was there.
C16_RemovedSourceReportsOff == (hist.removed /\ hist.event = "tick") => ~latch.is_on

\* the source state duration mode asks for
SourceConsistent ==
    \/ latch.trigger_on = "on" /\ latch.source_is_on
    \/ latch.trigger_on = "off" /\ ~latch.source_is_on
    \/ latch.trigger_on = "both"

\* C20: in duration mode, after every tick and every handled source change,
\* the output is true exactly when triggerTime is set, now >= triggerTime
\* and the source state is the one trigger_on asks for.
C20_DurationOutput ==
    (latch.mode = "duration" /\ hist.handled)
        => (latch.is_on <=> /\ latch.trigger_time # None
                            /\ now >= latch.trigger_time.v
                            /\ SourceConsistent)

C20_Witness ==
    /\ latch.mode = "duration" /\ hist.event = "tick"
    /\ latch.trigger_on = "off" /\ ~latch.source_is_on
    /\ latch.offset_seconds = 30
    /\ latch.is_on

\* trigger_on "both": the trigger is due and the source is off
C20_WitnessBoth ==
    /\ latch.mode = "duration" /\ hist.event = "tick"
    /\ latch.trigger_on = "both" /\ latch.trigger_time # None
    /\ now >= latch.trigger_time.v /\ ~latch.source_is_on
    /\ latch.is_on

\* what the latest callback was: the source turned on, turned off, or took
\* another value such as "unavailable"
SourceEvent == hist.event \in {"arm", "change"}
TurnedOn == SourceEvent /\ hist.handled /\ latch.source_is_on
TurnedOff == SourceEvent /\ hist.handled /\ ~latch.source_is_on
BecameOther == hist.event = "change" /\ ~hist.handled /\ ~hist.removed

\* the latest callback was a change to a value trigger_on matches, with
\* "both" matching every value
MatchesAnyValue ==
    \/ latch.trigger_on = "on" /\ TurnedOn
    \/ latch.trigger_on = "off" /\ TurnedOff
    \/ latch.trigger_on = "both" /\ (TurnedOn \/ TurnedOff \/ BecameOther)

\* ... with "both" matching "on" and "off"
MatchesOnOff ==
    \/ latch.trigger_on = "on" /\ TurnedOn
    \/ latch.trigger_on = "off" /\ TurnedOff
    \/ latch.trigger_on = "both" /\ (TurnedOn \/ TurnedOff)

\* trigger_time is now + offset, unless pulse mode found the whole window
\* already in the past and cleared it in the same callback
Rearmed ==
    \/ latch.trigger_time = Time(now + latch.offset_seconds)
    \/ /\ latch.mode = "pulse"
       /\ latch.offset_seconds + latch.pulse_duration_seconds <= 0
       /\ latch.trigger_time = None

\* C21 as stated: every change to a value that matches trigger_on, for
\* "both" a change to any value, sets triggerTime to now + offsetSeconds.
C21_AnyChangeRearms == MatchesAnyValue => Rearmed

\* C21: in every mode a change to "on" or "off" that matches trigger_on
\* ("both" matches the two) sets triggerTime to now + offsetSeconds in place
\* of any trigger there was, and the output is false as long as the latest
\* evaluation is before that triggerTime.
C21_OnOffChangeRearms ==
    /\ MatchesOnOff => Rearmed
    /\ (hist.armed_at # None /\ hist.eval_at.v < hist.armed_at.v) => ~latch.is_on

\* an active latch is re-armed and goes off until the new trigger time
C21_Witness ==
    /\ MatchesOnOff /\ hist.was_on /\ latch.mode = "latch"
    /\ latch.offset_seconds = 30
    /\ latch.trigger_time = Time(now + 30) /\ ~latch.is_on

C21_WitnessPending ==
    /\ hist.event = "tick" /\ hist.armed_at # None /\ now < hist.armed_at.v
    /\ latch.trigger_time = hist.armed_at /\ ~latch.is_on

\* the latest callback was a change to "on" or "off" that trigger_on does
\* not match
NonMatching ==
    \/ latch.trigger_on = "on" /\ TurnedOff
    \/ latch.trigger_on = "off" /\ TurnedOn

\* C22: in pulse mode every non-matching change, the source turning off
\* under trigger_on "on" as well as turning on under trigger_on "off",
\* clears triggerTime and leaves the output false.
C22_NonMatchingCancelsPulse ==
    (latch.mode = "pulse" /\ NonMatching) => (latch.trigger_time = None /\ ~latch.is_on)

\* C23: in duration mode with trigger_on "on", the source turning off clears
\* triggerTime and turns the output off, pending or active, and the output
\* stays off while the source is off; it is on again only with the source
\* on and a trigger time that has been reached.
C23_DurationCancelsOnOff ==
    (latch.mode = "duration" /\ latch.trigger_on = "on") =>
        /\ ~latch.source_is_on => (latch.trigger_time = None /\ ~latch.is_on)
        /\ latch.is_on => /\ latch.source_is_on
                          /\ latch.trigger_time # None /\ latch.trigger_time.v <= now

C23_Witness ==
    /\ latch.mode = "duration" /\ latch.trigger_on = "on"
    /\ TurnedOff /\ hist.event = "change" /\ hist.was_on
    /\ latch.trigger_time = None /\ ~latch.is_on

C23_WitnessPending ==
    /\ latch.mode = "duration" /\ latch.trigger_on = "on"
    /\ TurnedOff /\ hist.event = "change" /\ hist.was_armed /\ ~hist.was_on
    /\ latch.trigger_time = None /\ ~latch.is_on

C23_WitnessLaterTick ==
    /\ latch.mode = "duration" /\ latch.trigger_on = "on"
    /\ hist.event = "tick" /\ ~latch.source_is_on
    /\ hist.armed_at # None /\ now >= hist.armed_at.v
    /\ ~latch.is_on

\* C24 as stated: in latch mode a non-matching change leaves triggerTime and
\* the output exactly as they were before the event.
C24_NonMatchingLeavesOutput ==
    [][(latch.mode = "latch" /\ NonMatching')
          => (latch'.trigger_time = latch.trigger_time /\ latch'.is_on = latch.is_on)]_vars

\* C24: in latch mode a non-matching change leaves triggerTime as it was and
\* never turns the output off; the source turning off leaves the output as
\* it was, and the source turning on re-evaluates the latch, so that the
\* output turns on if the pending trigger time has been reached.
C24_NonMatchingKeepsTrigger ==
    [][(latch.mode = "latch" /\ NonMatching')
          => /\ latch'.trigger_time = latch.trigger_time
             /\ latch.is_on => latch'.is_on
             /\ TurnedOff' => latch'.is_on = latch.is_on
             /\ (~latch.is_on /\ latch'.is_on)
                   => (latch.trigger_time # None /\ latch.trigger_time.v <= now')]_vars

\* a pending latch turns on at a non-matching "on"
C24_Witness ==
    /\ latch.mode = "latch" /\ NonMatching /\ TurnedOn
    /\ hist.was_armed /\ ~hist.was_on /\ latch.is_on

C24_WitnessOff ==
    /\ latch.mode = "latch" /\ NonMatching /\ TurnedOff
    /\ hist.was_on /\ latch.is_on /\ latch.trigger_time # None

\* C26: once the sensor has been removed from Home Assistant, no source
\* change and no tick changes source_is_on, trigger_time or is_on again.
C26_RemovalStopsCallbacks == [][hist.unloaded => latch' = latch]_vars

\* C27: in every mode and after every callback, an output that is on has a
\* trigger time, and that trigger time is not after the latest evaluation:
\* the output is never on while the latch is idle or armed but not yet due.
C27_OnImpliesDue ==
    latch.is_on => /\ latch.trigger_time # None
                   /\ hist.eval_at # None
                   /\ latch.trigger_time.v <= hist.eval_at.v
                   /\ hist.eval_at.v <= now

\* a tick finds the armed trigger due and turns the output on
C27_Witness ==
    /\ hist.event = "tick" /\ latch.offset_seconds = 30
    /\ latch.is_on /\ latch.trigger_time # None /\ latch.trigger_time.v <= now

C27_WitnessArmed ==
    /\ hist.event = "tick" /\ latch.trigger_time # None
    /\ now < latch.trigger_time.v /\ ~latch.is_on

C27_WitnessIdle ==
    /\ hist.event = "tick" /\ latch.trigger_time = None /\ hist.armed_at # None
    /\ ~latch.is_on

\* a matching change has just armed the latch for the first time, for a time
\* that a tick within MaxTime reaches; a pulse has a positive duration
FreshlyArmed ==
    /\ hist.event = "arm" /\ ~hist.had_armed
    /\ hist.armed_at.v <= MaxTime - TickInterval
    /\ latch.mode = "pulse" => latch.pulse_duration_seconds > 0

\* the output is on, or the run left the claim's case: another source change
\* came after the arming, or the sensor was removed
ActiveOrDisturbed ==
    \/ latch.is_on
    \/ ~hist.quiet
    \/ SourceEvent /\ hist.had_armed
    \/ hist.unloaded

\* C28: in every mode, once a matching change has armed the latch and no
\* further source change occurs, the tick every 60 seconds eventually
\* produces an evaluation at which the output is on, for every offset and
\* every positive pulse duration.
C28_ArmedReachesActive == FreshlyArmed ~> ActiveOrDisturbed

\* C29: a sensor configured without pulse_duration has a pulse duration equal
\* to its offset.
C29_PulseDefaultsToOffset ==
    latch.config.pulse_duration = None
        => latch.pulse_duration_seconds = latch.offset_seconds

----------------------------------------------------------------------------
(* Custom holidays of the options flow: config_flow._generate_holiday_key, *)
(* _save_custom_holiday, _update_custom_holiday and the delete step.       *)

Lowercase ==
    {"a","b","c","d","e","f","g","h","i","j","k","l","m",
     "n","o","p","q","r","s","t","u","v","w","x","y","z"}

\* key.replace(" ", "_")
replace_spaces(s) == [i \in 1..Len(s) |-> IF s[i] = " " THEN "_" ELSE s[i]]

\* re.sub(r"[^a-z0-9_]", "", key)
IsKeyChar(c) == c \in Lowercase \/ IsDigit(c) \/ c = "_"
remove_special(s) == SelectSeq(s, IsKeyChar)

\* re.sub(r"_+", "_", key)
RECURSIVE collapse_underscores(_)
collapse_underscores(s) ==
    IF Len(s) < 2 THEN s
    ELSE IF s[1] = "_" /\ s[2] = "_" THEN collapse_underscores(Tail(s))
    ELSE <<s[1]>> \o collapse_underscores(Tail(s))

\* key.strip("_")
RECURSIVE strip_underscores(_)
strip_underscores(s) ==
    IF Len(s) > 0 /\ s[1] = "_" THEN strip_underscores(Tail(s))
    ELSE IF Len(s) > 0 /\ s[Len(s)] = "_" THEN strip_underscores(SubSeq(s, 1, Len(s) - 1))
    ELSE s

generate_holiday_key(name) ==
    strip_underscores(collapse_underscores(remove_special(replace_spaces(lower(name)))))

\* the errors async_step_custom_holiday finds in a submitted form
form_errors(user_input) ==
    IF Len(user_input.name) = 0 THEN {"missing_name"}
    ELSE IF user_input.holiday_type = "fixed"
              /\ ~(user_input.month \in 1..12 /\ user_input.day \in 1..31)
         THEN {"invalid_fixed_date"}
    ELSE IF user_input.holiday_type = "last_weekday"
              /\ ~(user_input.month \in 1..12 /\ user_input.weekday \in 0..6)
         THEN {"invalid_last_weekday"}
    ELSE {}

\* the holiday dict built from the key and the fields the form submitted
holiday_dict(holiday_key, user_input) ==
    [f \in {"key", "name", "type"} \cup (DOMAIN user_input \cap {"month", "day", "occurrence", "weekday"}) |->
        IF f = "key" THEN holiday_key
        ELSE IF f = "name" THEN user_input.name
        ELSE IF f = "type" THEN user_input.holiday_type
        ELSE user_input[f]]

save_custom_holiday(opts, user_input) ==
    [opts EXCEPT !.custom_holidays =
        Append(@, holiday_dict(generate_holiday_key(user_input.name), user_input))]

\* holiday_index counts from 0
update_custom_holiday(opts, holiday_index, user_input) ==
    IF 0 <= holiday_index /\ holiday_index < Len(opts.custom_holidays)
    THEN LET existing == opts.custom_holidays[holiday_index + 1]
             holiday_key == IF existing.name # user_input.name
                            THEN generate_holiday_key(user_input.name)
                            ELSE existing.key
         IN [opts EXCEPT !.custom_holidays[holiday_index + 1] = holiday_dict(holiday_key, user_input)]
    ELSE opts

delete_custom_holiday(opts, holiday_index) ==
    IF 0 <= holiday_index /\ holiday_index < Len(opts.custom_holidays)
    THEN [opts EXCEPT !.custom_holidays =
             SubSeq(@, 1, holiday_index) \o SubSeq(@, holiday_index + 2, Len(@))]
    ELSE opts

MaxHolidays == 3

HolidayNames ==
    {<<"C","h","r","i","s","t","m","a","s">>,
     <<"E","a","s","t","e","r"," ","S","u","n","d","a","y">>,
     <<"e","a","s","t","e","r"," "," ","s","u","n","d","a","y","!">>,
     <<"M","i","d","s","u","m","m","e","r">>,
     <<"!","!","!">>,
     <<>>}

UserInputs ==
    {[name |-> n, holiday_type |-> "fixed", month |-> 12, day |-> 25] : n \in HolidayNames}
    \cup {[name |-> n, holiday_type |-> "fixed", month |-> 6, day |-> 24] : n \in HolidayNames}
    \cup {[name |-> n, holiday_type |-> "last_weekday", month |-> 11, weekday |-> 3] : n \in HolidayNames}

\* the built-in table, its keys spelled as the flow spells a generated key
FlowBuiltins ==
    << [key |-> <<"n","e","w","_","y","e","a","r","s","_","d","a","y">>,
        type |-> "fixed", month |-> 1, day |-> 1],
       [key |-> <<"c","h","r","i","s","t","m","a","s">>,
        type |-> "fixed", month |-> 12, day |-> 25] >>

FlowInit ==
    /\ options = [custom_holidays |-> <<>>]
    /\ PureUnused /\ LatchUnused /\ DatesUnused

\* async_step_custom_holiday: a form with errors is shown again, a clean
\* one is saved
SaveCustomHoliday ==
    \E user_input \in UserInputs :
        /\ Len(options.custom_holidays) < MaxHolidays
        /\ options' = IF form_errors(user_input) # {} THEN options
                      ELSE save_custom_holiday(options, user_input)
        /\ UNCHANGED <<call, ret, latch, now, next_tick, hist, states, wall, between, outside, listeners>>

\* async_step_modify_custom_holiday and its form, for a selected holiday
UpdateCustomHoliday ==
    \E holiday_index \in 0..(MaxHolidays - 1), user_input \in UserInputs :
        /\ holiday_index < Len(options.custom_holidays)
        /\ options' = IF form_errors(user_input) # {} THEN options
                      ELSE update_custom_holiday(options, holiday_index, user_input)
        /\ UNCHANGED <<call, ret, latch, now, next_tick, hist, states, wall, between, outside, listeners>>

\* async_step_delete_custom_holiday and its confirmation
DeleteCustomHoliday ==
    \E holiday_index \in 0..(MaxHolidays - 1) :
        /\ holiday_index < Len(options.custom_holidays)
        /\ options' = delete_custom_holiday(options, holiday_index)
        /\ UNCHANGED <<call, ret, latch, now, next_tick, hist, states, wall, between, outside, listeners>>

FlowNext == SaveCustomHoliday \/ UpdateCustomHoliday \/ DeleteCustomHoliday

SpecFlow == FlowInit /\ [][FlowNext]_vars

MergedHolidays == get_holidays(FlowBuiltins, options.custom_holidays)

\* C19: after any sequence of custom-holiday additions, modifications and
\* deletions no two rules of the merged table (built-in followed by custom)
\* have the same key.
C19_MergedKeysUnique ==
    \A i \in 1..Len(MergedHolidays) : \A j \in 1..Len(MergedHolidays) :
        i # j => MergedHolidays[i].key # MergedHolidays[j].key

====
